---- MODULE Spec2Model ----
(***************************************************************************)
(* State-machine model of the event-driven coordination core of the       *)
(* waddle XMPP client: PresenceManager (crates/presence), MamManager       *)
(* (crates/mam) and ConnectionManager (crates/xmpp/src/connection.rs).     *)
(*                                                                         *)
(* Each manager has its own specification (SpecPresence, SpecMam,          *)
(* SpecConn).  reconnect_delay is checked under SpecDelay, Channel::new    *)
(* and the choice of buffers by subscribe under SpecNames, and the         *)
(* BroadcastEventBus with its subscriptions under SpecBus, two concurrent  *)
(* collect_query_results calls under SpecCollect and the MessageManager    *)
(* with its offline queue under SpecMsg.  Every                            *)
(* operation is recorded in a log with the events it published, in order.  *)
(* The logs are observations of the run, not program state.                *)
(***************************************************************************)
EXTENDS Integers, Sequences, FiniteSets, TLC

VARIABLES
    own_presence,   \* PresenceManager.own_presence : PresenceInfo
    contacts,       \* PresenceManager.contacts : bare jid -> PresenceInfo
    pLog,           \* observation: the operations run on the PresenceManager

    mamPc,          \* position of the MamManager call in progress
    mamCall,        \* locals of the sync_since / fetch_history in progress
    sync_state,     \* table mam_sync_state : jid -> last_stanza_id
    messages,       \* table messages : id -> body of the stored row
    collector,      \* the collector's subscription to xmpp.mam.**
    mLog,           \* observation: the events handled by the MamManager

    state,          \* ConnectionManager.state
    transport,      \* ConnectionManager.transport is Some
    max_reconnect_attempts, \* ConnectionConfig.max_reconnect_attempts
    connPc,         \* position of the connect() call in progress
    reconnect_attempt,      \* local of connect()
    cLog,           \* observation: the latest connect() / disconnect() call

    dCalls,         \* observation: the latest calls of reconnect_delay

    nameCall,       \* observation: the latest Channel::new / subscribe call

    busCap,         \* BroadcastEventBus: events each domain buffer retains
    busSent,        \* BroadcastEventBus: domain -> events sent to its buffer
    busSubs,        \* the EventSubscriptions, with what each has received
    busPub,         \* observation: the publish() calls, in order

    collectors,     \* concurrent collect_query_results calls, by caller
    collLog,        \* observation: subscriptions and xmpp.mam.* publishes

    online,         \* MessageManager.online
    offline_queue,  \* table offline_queue, rows in ascending id order
    qLog            \* observation: the operations run on the MessageManager

presVars == <<own_presence, contacts, pLog>>
mamVars  == <<mamPc, mamCall, sync_state, messages, collector, mLog>>
connVars == <<state, transport, max_reconnect_attempts, connPc,
              reconnect_attempt, cLog>>
delayVars == <<dCalls>>
nameVars == <<nameCall>>
busVars  == <<busCap, busSent, busSubs, busPub>>
collVars == <<collectors, collLog>>
msgVars  == <<online, offline_queue, qLog>>
others   == <<delayVars, nameVars, busVars, collVars, msgVars>>
vars     == <<presVars, mamVars, connVars, others>>

(***************************************************************************)
(* Common values                                                           *)
(***************************************************************************)
\* Option<T>: None is the empty sequence, Some(v) the one-element sequence.
None == <<>>
Some(v) == <<v>>
IsSome(o) == o # None
Unwrap(o) == o[1]

\* An empty HashMap / table
EmptyMap == [k \in {} |-> None]

\* A jid is a sequence of characters; "/" separates the resource.
JidA   == <<"a">>
JidAx  == <<"a", "/", "x">>
JidAy  == <<"a", "/", "y">>
JidB   == <<"b">>
JidBxy == <<"b", "/", "x", "/", "y">>

Append2(s, a, b) == Append(Append(s, a), b)

(***************************************************************************)
(* PresenceManager                                                         *)
(***************************************************************************)
MaxPresenceOps == 3

PresenceInfo(jid, show, status, priority) ==
    [jid |-> jid, show |-> show, status |-> status, priority |-> priority]

\* PresenceInfo::unavailable
Unavailable(jid) == PresenceInfo(jid, "unavailable", None, 0)

\* jid.find('/') : the least index holding "/", or 0
FindSlash(jid) ==
    IF \E i \in 1..Len(jid) : jid[i] = "/"
    THEN CHOOSE i \in 1..Len(jid) :
            jid[i] = "/" /\ \A k \in 1..(i - 1) : jid[k] # "/"
    ELSE 0

bare_jid(jid) ==
    IF FindSlash(jid) # 0 THEN SubSeq(jid, 1, FindSlash(jid) - 1) ELSE jid

own_presence_get == own_presence

get_presence(jid) ==
    IF bare_jid(jid) \in DOMAIN contacts
    THEN contacts[bare_jid(jid)]
    ELSE Unavailable(bare_jid(jid))

\* The ui.presence.set event of send_initial_presence / set_own_presence
PresenceSetRequested(show, status) ==
    [chan |-> "ui.presence.set", show |-> show, status |-> status]

send_initial_presence == <<PresenceSetRequested("available", None)>>

\* The events the model feeds to PresenceManager.handle_event
ConnectionEstablished(jid) == [type |-> "ConnectionEstablished", jid |-> jid]
ConnectionLost == [type |-> "ConnectionLost"]
RosterReceived == [type |-> "RosterReceived"]
\* priority: the priority of the contact's presence as the callers in the
\* integration tests pass it; the payload the handler matches on binds jid,
\* show and status only
PresenceChanged(jid, show, status, priority) ==
    [type |-> "PresenceChanged", jid |-> jid, show |-> show, status |-> status,
     priority |-> priority]
OwnPresenceChanged(show, status) ==
    [type |-> "OwnPresenceChanged", show |-> show, status |-> status]
ScrollRequested(jid, dir) ==
    [type |-> "ScrollRequested", jid |-> jid, direction |-> dir]

PresenceChangedEvents ==
    { PresenceChanged(j, sh[1], sh[2], sh[3]) :
        j \in {JidA, JidAx, JidB},
        sh \in {<<"away", Some("brb"), 10>>, <<"dnd", None, 0>>} }

OwnPresenceChangedEvents ==
    { OwnPresenceChanged("dnd", Some("brb")),
      OwnPresenceChanged("available", None),
      OwnPresenceChanged("unavailable", None) }

PLogged(op, pub) == Append(pLog, [op |-> op, pub |-> pub])

\* A step of the PresenceManager: the log is bounded, the other managers idle.
PresenceStep ==
    /\ Len(pLog) < MaxPresenceOps
    /\ UNCHANGED <<mamVars, connVars, others>>

PresenceInit ==
    /\ own_presence = PresenceInfo(<<>>, "unavailable", None, 0)
    /\ contacts = EmptyMap
    /\ pLog = <<>>

\* handle_event, arm ConnectionEstablished { jid }
HandleConnectionEstablished(e) ==
    /\ PresenceStep
    /\ e.type = "ConnectionEstablished"
    /\ own_presence' = PresenceInfo(e.jid, "available", None, 0)
    /\ contacts' = EmptyMap
    /\ pLog' = PLogged(e, send_initial_presence)

\* handle_event, arm ConnectionLost { .. }
HandleConnectionLost_KeepsContacts(e) ==
    /\ PresenceStep
    /\ e.type = "ConnectionLost"
    /\ own_presence' =
          [own_presence EXCEPT !.show = "unavailable", !.status = None]
    /\ pLog' = PLogged(e, <<>>)
    /\ UNCHANGED contacts

HandleConnectionLost(e) ==
    /\ PresenceStep
    /\ e.type = "ConnectionLost"
    /\ contacts' = EmptyMap
    /\ own_presence' =
          [own_presence EXCEPT !.show = "unavailable", !.status = None]
    /\ pLog' = PLogged(e, <<>>)

\* handle_event, arm PresenceChanged { jid, show, status }
HandlePresenceChanged_FirstWins(e) ==
    /\ PresenceStep
    /\ e.type = "PresenceChanged"
    /\ LET bare == bare_jid(e.jid)
           info == PresenceInfo(bare, e.show, e.status, 0)
       IN  contacts' = [k \in (DOMAIN contacts) \cup {bare} |->
                           IF k \in DOMAIN contacts THEN contacts[k] ELSE info]
    /\ pLog' = PLogged(e, <<>>)
    /\ UNCHANGED own_presence

HandlePresenceChanged(e) ==
    /\ PresenceStep
    /\ e.type = "PresenceChanged"
    /\ LET bare == bare_jid(e.jid)
           info == PresenceInfo(bare, e.show, e.status, 0)
       IN  contacts' = [k \in (DOMAIN contacts) \cup {bare} |->
                           IF k = bare THEN info ELSE contacts[k]]
    /\ pLog' = PLogged(e, <<>>)
    /\ UNCHANGED own_presence

\* handle_event, arm OwnPresenceChanged { show, status }
HandleOwnPresenceChanged_Republishes(e) ==
    /\ PresenceStep
    /\ e.type = "OwnPresenceChanged"
    /\ own_presence' =
          [own_presence EXCEPT !.show = e.show, !.status = e.status]
    /\ pLog' = PLogged(e, <<PresenceSetRequested(e.show, e.status)>>)
    /\ UNCHANGED contacts

HandleOwnPresenceChanged(e) ==
    /\ PresenceStep
    /\ e.type = "OwnPresenceChanged"
    /\ own_presence' =
          [own_presence EXCEPT !.show = e.show, !.status = e.status]
    /\ pLog' = PLogged(e, <<>>)
    /\ UNCHANGED contacts

\* handle_event, arm _ => {} (RosterReceived is one of the payloads it takes)
HandleOtherPresence(e) ==
    /\ PresenceStep
    /\ e.type \notin {"ConnectionEstablished", "ConnectionLost",
                      "PresenceChanged", "OwnPresenceChanged"}
    /\ pLog' = PLogged(e, <<>>)
    /\ UNCHANGED <<own_presence, contacts>>

\* PresenceManager::handle_event
PresenceHandleEvent(e) ==
    \/ HandleConnectionEstablished(e)
    \/ HandleConnectionLost(e)
    \/ HandlePresenceChanged(e)
    \/ HandleOwnPresenceChanged(e)
    \/ HandleOtherPresence(e)

\* PresenceManager::set_own_presence(show, status, priority)
SetOwnPresence(show, status, priority) ==
    /\ PresenceStep
    /\ own_presence' =
          [own_presence EXCEPT
              !.show = show, !.status = status,
              !.priority = IF IsSome(priority) THEN Unwrap(priority) ELSE @]
    /\ pLog' = PLogged([type |-> "set_own_presence", show |-> show,
                        status |-> status, priority |-> priority],
                       <<PresenceSetRequested(show, status)>>)
    /\ UNCHANGED contacts

PresenceEvents ==
    { ConnectionEstablished(JidAx), ConnectionEstablished(JidB),
      ConnectionLost, RosterReceived }
    \cup PresenceChangedEvents \cup OwnPresenceChangedEvents

SetOwnPresenceArgs ==
    { <<"away", Some("brb"), None>>, <<"available", None, Some(5)>> }

PresenceNext ==
    \/ \E e \in PresenceEvents : PresenceHandleEvent(e)
    \/ \E a \in SetOwnPresenceArgs : SetOwnPresence(a[1], a[2], a[3])

(***************************************************************************)
(* Claims about the PresenceManager (checked under SpecPresence)           *)
(***************************************************************************)
PLast == pLog[Len(pLog)]

\* Entry i of the log is a handle_event call (not set_own_presence)
IsHandled(i) == pLog[i].op.type # "set_own_presence"

\* The publications of entry i that go to ui.presence.set
PresenceSetsOf(i) ==
    { k \in 1..Len(pLog[i].pub) : pLog[i].pub[k].chan = "ui.presence.set" }

\* A RosterReceived was handled at or before entry i, after the most recent
\* ConnectionEstablished
RosterKnownAt(i) ==
    \E r \in 1..i :
        /\ pLog[r].op.type = "RosterReceived"
        /\ \A c \in (r + 1)..i : pLog[c].op.type # "ConnectionEstablished"

AllJids == {JidA, JidAx, JidAy, JidB, JidBxy}

\* C1: every ui.presence.set {available, None} published by handle_event is
\* preceded by a RosterReceived handled after the most recent
\* ConnectionEstablished, and handling ConnectionEstablished publishes no
\* ui.presence.set.
C1_InitialPresenceOnlyAfterRoster ==
    \A i \in 1..Len(pLog) :
        /\ ( /\ IsHandled(i)
             /\ \E k \in PresenceSetsOf(i) :
                    pLog[i].pub[k] = PresenceSetRequested("available", None) )
           => RosterKnownAt(i)
        /\ pLog[i].op.type = "ConnectionEstablished" => PresenceSetsOf(i) = {}

\* C2: right after handle_event(ConnectionEstablished{jid}) own_presence()
\* has the event's jid and show = unavailable, and get_presence(j).show is
\* unavailable for every j.
C2_ConnectedWaitsUnavailable ==
    (Len(pLog) > 0 /\ PLast.op.type = "ConnectionEstablished")
        => /\ own_presence_get.jid = PLast.op.jid
           /\ own_presence_get.show = "unavailable"
           /\ \A j \in AllJids : get_presence(j).show = "unavailable"

\* C3: a fresh manager that handles ConnectionEstablished and then
\* RosterReceived publishes ui.presence.set {available, None} while handling
\* RosterReceived, ends with own.show = available, and has published exactly
\* one ui.presence.set over the two events.
C3_RosterPromotesToAvailable ==
    ( /\ Len(pLog) = 2
      /\ pLog[1].op.type = "ConnectionEstablished"
      /\ pLog[2].op.type = "RosterReceived" )
        => /\ pLog[2].pub = <<PresenceSetRequested("available", None)>>
           /\ own_presence_get.show = "available"
           /\ Cardinality(PresenceSetsOf(1)) + Cardinality(PresenceSetsOf(2)) = 1

\* The part of a jid before its first "/", taken from the jid itself
BarePart(j) ==
    SubSeq(j, 1, Cardinality({ n \in 1..Len(j) :
                                 \A k \in 1..n : j[k] # "/" }))

\* The entry after which the contact map starts afresh: the last
\* ConnectionEstablished or ConnectionLost handled, or 0
PLastReset ==
    LET R == { i \in 1..Len(pLog) :
                 pLog[i].op.type \in {"ConnectionEstablished",
                                      "ConnectionLost"} }
    IN IF R = {} THEN 0 ELSE CHOOSE i \in R : \A o \in R : o <= i

\* The PresenceChanged events for j's bare JID handled since the last reset
PChangesFor(j) ==
    { i \in (PLastReset + 1)..Len(pLog) :
        /\ pLog[i].op.type = "PresenceChanged"
        /\ BarePart(pLog[i].op.jid) = BarePart(j) }

\* C29: for every jid j, get_presence(j) has the show and status of the last
\* PresenceChanged with j's bare JID handled since the last
\* ConnectionEstablished or ConnectionLost, and is unavailable with no status
\* when there is none; PresenceChanged events for other bare JIDs do not
\* count.
C29_ContactLastWriterWins ==
    \A j \in AllJids :
        IF PChangesFor(j) = {}
        THEN /\ get_presence(j).show = "unavailable"
             /\ get_presence(j).status = None
        ELSE LET last == CHOOSE i \in PChangesFor(j) :
                            \A o \in PChangesFor(j) : o <= i
             IN /\ get_presence(j).show = pLog[last].op.show
                /\ get_presence(j).status = pLog[last].op.status
                /\ get_presence(j).jid = BarePart(j)

\* C29 witness: two resources of "a" published different presences, then
\* "b" published one, and get_presence for "a" shows the second.
C29_Witness ==
    /\ Len(pLog) >= 3
    /\ PLastReset < Len(pLog) - 2
    /\ pLog[Len(pLog) - 2].op = PresenceChanged(JidAx, "away", Some("brb"), 10)
    /\ pLog[Len(pLog) - 1].op = PresenceChanged(JidA, "dnd", None, 0)
    /\ pLog[Len(pLog)].op = PresenceChanged(JidB, "away", Some("brb"), 10)
    /\ get_presence(JidAy).show = "dnd"

\* C30: right after handle_event(PresenceChanged{jid, show, status,
\* priority = p}), get_presence(jid).priority = p.
C30_ContactPriorityStored ==
    (Len(pLog) > 0 /\ PLast.op.type = "PresenceChanged")
        => get_presence(PLast.op.jid).priority = PLast.op.priority

\* This step is a handle_event call with a payload of the given type
PHandles(type) ==
    /\ Len(pLog') = Len(pLog) + 1
    /\ pLog'[Len(pLog')].op.type = type

\* C31: the step that handles ConnectionLost leaves own.show = unavailable
\* and get_presence(j).show = unavailable for every j with an empty contact
\* map, leaves own.jid as it was and publishes nothing.
C31_ConnectionLostClears ==
    [][ PHandles("ConnectionLost")
        => /\ own_presence'.show = "unavailable"
           /\ contacts' = EmptyMap
           /\ \A j \in AllJids : (get_presence(j))'.show = "unavailable"
           /\ own_presence'.jid = own_presence.jid
           /\ pLog'[Len(pLog')].pub = <<>>
      ]_vars

\* C31 witness: ConnectionLost was handled by a manager that was connected
\* as "b" and had a contact in its map.
C31_Witness ==
    /\ Len(pLog) = 3
    /\ pLog[1].op = ConnectionEstablished(JidB)
    /\ pLog[2].op.type = "PresenceChanged"
    /\ pLog[3].op.type = "ConnectionLost"
    /\ own_presence_get.jid = JidB
    /\ own_presence_get.show = "unavailable"

\* C32: the step that handles OwnPresenceChanged{show, status} sets own.show
\* and own.status to the event's values, publishes nothing, and leaves
\* own.jid, own.priority and the contact map as they were.
C32_OwnPresenceChangedFrame ==
    [][ PHandles("OwnPresenceChanged")
        => /\ own_presence'.show = pLog'[Len(pLog')].op.show
           /\ own_presence'.status = pLog'[Len(pLog')].op.status
           /\ pLog'[Len(pLog')].pub = <<>>
           /\ own_presence'.jid = own_presence.jid
           /\ own_presence'.priority = own_presence.priority
           /\ contacts' = contacts
      ]_vars

\* C32 witness: OwnPresenceChanged{dnd, "brb"} was handled by a manager with
\* own priority 5 and a contact in its map.
C32_Witness ==
    /\ Len(pLog) = 3
    /\ pLog[3].op = OwnPresenceChanged("dnd", Some("brb"))
    /\ own_presence_get.priority = 5
    /\ own_presence_get.show = "dnd"
    /\ own_presence_get.status = Some("brb")
    /\ DOMAIN contacts # {}

(***************************************************************************)
(* MamManager                                                              *)
(***************************************************************************)
MaxMamHandled   == 2     \* handle_event calls in a run
MaxMamResponses == 3     \* xmpp.mam.* events the server side publishes
MaxMamLog       == 10    \* entries of the log after which nothing more is started
MAM_PAGE_SIZE   == 50

GlobalKey == "__global__"

\* get_last_stanza_id / update_sync_state: "" stands for the global cursor
SyncKey(jid) == IF jid = "" THEN GlobalKey ELSE jid

get_last_stanza_id(jid) ==
    IF SyncKey(jid) \in DOMAIN sync_state
    THEN Some(sync_state[SyncKey(jid)])
    ELSE None

\* INSERT OR REPLACE INTO mam_sync_state
update_sync_state(tbl, jid, stanza_id) ==
    [k \in (DOMAIN tbl) \cup {SyncKey(jid)} |->
        IF k = SyncKey(jid) THEN stanza_id ELSE tbl[k]]

\* The row persist_message binds for msg (read is 0)
MessageRow(msg) ==
    [id |-> msg.id, from_jid |-> msg.from, body |-> msg.body,
     timestamp |-> msg.timestamp, read |-> 0]

StoredIds(tbl) == { row.id : row \in tbl }

\* INSERT OR IGNORE INTO messages: a message whose id is stored is skipped
persist_message_Replace(tbl, msg) ==
    { row \in tbl : row.id # msg.id } \cup {MessageRow(msg)}

persist_message(tbl, msg) ==
    IF msg.id \in StoredIds(tbl) THEN tbl ELSE tbl \cup {MessageRow(msg)}

RECURSIVE PersistAll(_, _)
PersistAll(tbl, msgs) ==
    IF msgs = <<>> THEN tbl
    ELSE PersistAll(persist_message(tbl, Head(msgs)), Tail(msgs))

\* timestamp: seconds, as far as the order of two messages goes
ChatMessage(id, from, body, timestamp) ==
    [id |-> id, from |-> from, body |-> body, timestamp |-> timestamp]

\* Published by the MamManager
SyncStarted(corr) == [chan |-> "system.sync.started", correlation_id |-> corr]
SyncCompleted(corr, n) ==
    [chan |-> "system.sync.completed", correlation_id |-> corr,
     messages_synced |-> n]
MamQueryRequested(qid, after, before) ==
    [chan |-> "ui.mam.query", query_id |-> qid, after |-> after,
     before |-> before, max |-> MAM_PAGE_SIZE]

\* Published by the server side on xmpp.mam.*
MamResultReceived(msgs) ==
    [chan |-> "xmpp.mam.result.received", messages |-> msgs]
MamFinReceived(complete, last_id) ==
    [chan |-> "xmpp.mam.fin.received", complete |-> complete,
     last_id |-> last_id]

MamResponses ==
    { MamResultReceived(<<ChatMessage("m1", JidB, "x", 1)>>),
      MamResultReceived(<<ChatMessage("m2", JidB, "y", 2),
                          ChatMessage("m1", JidB, "z", 1)>>),
      MamFinReceived(TRUE, Some("m2")),
      MamFinReceived(FALSE, None) }

MamEvents ==
    { ConnectionEstablished(JidA),
      OwnPresenceChanged("available", None),
      OwnPresenceChanged("unavailable", None),
      ScrollRequested(JidB, "Up"),
      ScrollRequested(JidB, "Down") }

\* Entries of the MamManager's log
MHandle(e)  == [kind |-> "handle", ev |-> e]
MPublish(p) == [kind |-> "publish", ev |-> p]
\* delivered: a collector was subscribed when p was published
MXmpp(p, delivered) == [kind |-> "xmpp", ev |-> p, delivered |-> delivered]
MReturn(r)  == [kind |-> "return", result |-> r]
\* What collect_query_results returned: the page and the fin that closed it
MPage(msgs, fin) == [kind |-> "page", messages |-> msgs, fin |-> fin]

MCount(kind) == Cardinality({ i \in 1..Len(mLog) : mLog[i].kind = kind })

MamStep ==
    /\ Len(mLog) < MaxMamLog
    /\ UNCHANGED <<presVars, connVars, others>>

MamInit ==
    /\ mamPc = "idle"
    /\ mamCall = None
    /\ sync_state \in { EmptyMap, [k \in {GlobalKey} |-> "m0"] }
    /\ messages = {}
    /\ collector = None
    /\ mLog = <<>>

\* The arm of handle_event's match that takes payload e
MamArm_AnyOwnPresence(e) ==
    IF e.type \in {"ConnectionEstablished", "OwnPresenceChanged"}
    THEN "sync_since"
    ELSE IF e.type = "ScrollRequested" /\ e.direction = "Up"
    THEN "fetch_history"
    ELSE "ignore"

MamArm(e) ==
    IF e.type = "ConnectionEstablished" THEN "sync_since"
    ELSE IF e.type = "ScrollRequested" /\ e.direction = "Up"
    THEN "fetch_history"
    ELSE "ignore"

\* Uuid::new_v4(): a value no earlier call has drawn
FreshId == MCount("handle") + 1

\* handle_event -> sync_since, up to the first query: read the cursor, draw
\* the ids, publish system.sync.started
MamHandleSync(e) ==
    /\ MamStep
    /\ mamPc = "idle"
    /\ MCount("handle") < MaxMamHandled
    /\ MamArm(e) = "sync_since"
    /\ mamCall' = [kind |-> "sync", query_id |-> FreshId,
                   correlation_id |-> FreshId,
                   after |-> get_last_stanza_id(""), before |-> None,
                   total_synced |-> 0, page |-> <<>>, last_id |-> None,
                   fin_complete |-> FALSE]
    /\ mLog' = Append2(mLog, MHandle(e), MPublish(SyncStarted(FreshId)))
    /\ mamPc' = "query"
    /\ UNCHANGED <<sync_state, messages, collector>>

\* handle_event -> fetch_history(jid, None, MAM_PAGE_SIZE), up to its query
MamHandleScrollUp(e) ==
    /\ MamStep
    /\ mamPc = "idle"
    /\ MCount("handle") < MaxMamHandled
    /\ MamArm(e) = "fetch_history"
    /\ mamCall' = [kind |-> "fetch", query_id |-> FreshId,
                   correlation_id |-> 0,
                   after |-> None, before |-> None,
                   total_synced |-> 0, page |-> <<>>, last_id |-> None,
                   fin_complete |-> FALSE]
    /\ mLog' = Append(mLog, MHandle(e))
    /\ mamPc' = "query"
    /\ UNCHANGED <<sync_state, messages, collector>>

\* handle_event, arm _ => {}
MamHandleIgnored(e) ==
    /\ MamStep
    /\ mamPc = "idle"
    /\ MCount("handle") < MaxMamHandled
    /\ MamArm(e) = "ignore"
    /\ mLog' = Append2(mLog, MHandle(e), MReturn("ignored"))
    /\ UNCHANGED <<mamPc, mamCall, sync_state, messages, collector>>

\* MamManager::handle_event
MamHandleEvent(e) ==
    \/ MamHandleSync(e)
    \/ MamHandleScrollUp(e)
    \/ MamHandleIgnored(e)

\* send_mam_query: publish ui.mam.query
MamSendQuery ==
    /\ MamStep
    /\ mamPc = "query"
    /\ mLog' = Append(mLog, MPublish(MamQueryRequested(
                    mamCall.query_id, mamCall.after, mamCall.before)))
    /\ mamPc' = "subscribe"
    /\ UNCHANGED <<mamCall, sync_state, messages, collector>>

\* collect_query_results: subscribe("xmpp.mam.**"), empty page
MamSubscribe ==
    /\ MamStep
    /\ mamPc = "subscribe"
    /\ collector' = Some(<<>>)
    /\ mamCall' = [mamCall EXCEPT !.page = <<>>, !.last_id = None]
    /\ mamPc' = "collect"
    /\ UNCHANGED <<sync_state, messages, mLog>>

\* The id of the last message of msgs, or last when msgs is empty
LastIdOf_First(msgs, last) ==
    IF msgs = <<>> THEN last ELSE Some(msgs[1].id)

LastIdOf(msgs, last) ==
    IF msgs = <<>> THEN last ELSE Some(msgs[Len(msgs)].id)

\* collect_query_results: recv() yields a MamResultReceived
MamCollectResult ==
    /\ MamStep
    /\ mamPc = "collect"
    /\ Unwrap(collector) # <<>>
    /\ LET ev == Head(Unwrap(collector)) IN
        /\ ev.chan = "xmpp.mam.result.received"
        /\ mamCall' = [mamCall EXCEPT
                          !.page = @ \o ev.messages,
                          !.last_id = LastIdOf(ev.messages, @)]
    /\ collector' = Some(Tail(Unwrap(collector)))
    /\ UNCHANGED <<mamPc, sync_state, messages, mLog>>

\* collect_query_results: recv() yields a MamFinReceived; the page is returned
\* and the subscription dropped
MamCollectFin ==
    /\ MamStep
    /\ mamPc = "collect"
    /\ Unwrap(collector) # <<>>
    /\ LET ev == Head(Unwrap(collector)) IN
        /\ ev.chan = "xmpp.mam.fin.received"
        /\ mamCall' = [mamCall EXCEPT
                          !.last_id = IF IsSome(ev.last_id)
                                      THEN ev.last_id ELSE @,
                          !.fin_complete = ev.complete]
        /\ mLog' = Append(mLog, MPage(mamCall.page, ev))
    /\ collector' = None
    /\ mamPc' = "persist"
    /\ UNCHANGED <<sync_state, messages>>

\* collect_query_results: no event within 30 s; the call fails with
\* Timeout(30) and handle_event logs it
MamCollectTimeout_KeepsPage ==
    /\ MamStep
    /\ mamPc = "collect"
    /\ Unwrap(collector) = <<>>
    /\ collector' = None
    /\ mamCall' = None
    /\ mamPc' = "idle"
    /\ mLog' = Append(mLog, MReturn("timeout"))
    /\ messages' = PersistAll(messages, mamCall.page)
    /\ sync_state' = IF IsSome(mamCall.last_id)
                     THEN update_sync_state(sync_state, "",
                                            Unwrap(mamCall.last_id))
                     ELSE sync_state

MamCollectTimeout ==
    /\ MamStep
    /\ mamPc = "collect"
    /\ Unwrap(collector) = <<>>
    /\ collector' = None
    /\ mamCall' = None
    /\ mamPc' = "idle"
    /\ mLog' = Append(mLog, MReturn("timeout"))
    /\ UNCHANGED <<sync_state, messages>>

\* total_synced += page_count
TotalSynced_LastPage(total, page_count) == page_count

TotalSynced(total, page_count) == total + page_count

\* complete = fin_complete || page_count == 0
SyncComplete_FinOnly(fin_complete, page_count) == fin_complete

SyncComplete(fin_complete, page_count) == fin_complete \/ page_count = 0

\* if let Some(ref id) = last_id { ...; after = Some(id.clone()) }
NextAfter_Keep(after, last_id) == after

NextAfter(after, last_id) == IF IsSome(last_id) THEN last_id ELSE after

\* sync_since after a page: persist, count, move the cursor, decide to stop
MamSyncPage ==
    /\ MamStep
    /\ mamPc = "persist"
    /\ mamCall.kind = "sync"
    /\ LET page_count == Len(mamCall.page)
           total == TotalSynced(mamCall.total_synced, page_count)
           complete == SyncComplete(mamCall.fin_complete, page_count)
       IN
        /\ messages' = PersistAll(messages, mamCall.page)
        /\ sync_state' = IF IsSome(mamCall.last_id)
                         THEN update_sync_state(sync_state, "",
                                                Unwrap(mamCall.last_id))
                         ELSE sync_state
        /\ IF complete
           THEN /\ mLog' = Append2(mLog,
                       MPublish(SyncCompleted(mamCall.correlation_id, total)),
                       MReturn("ok"))
                /\ mamCall' = None
                /\ mamPc' = "idle"
           ELSE /\ mamCall' = [mamCall EXCEPT
                       !.total_synced = total,
                       !.after = NextAfter(@, mamCall.last_id)]
                /\ mamPc' = "query"
                /\ UNCHANGED mLog
    /\ UNCHANGED collector

\* fetch_history after its page: persist and return
MamFetchPage_MovesCursor ==
    /\ MamStep
    /\ mamPc = "persist"
    /\ mamCall.kind = "fetch"
    /\ messages' = PersistAll(messages, mamCall.page)
    /\ sync_state' = IF IsSome(mamCall.last_id)
                     THEN update_sync_state(sync_state, "",
                                            Unwrap(mamCall.last_id))
                     ELSE sync_state
    /\ mamCall' = None
    /\ mamPc' = "idle"
    /\ mLog' = Append(mLog, MReturn("ok"))
    /\ UNCHANGED collector

MamFetchPage ==
    /\ MamStep
    /\ mamPc = "persist"
    /\ mamCall.kind = "fetch"
    /\ messages' = PersistAll(messages, mamCall.page)
    /\ mamCall' = None
    /\ mamPc' = "idle"
    /\ mLog' = Append(mLog, MReturn("ok"))
    /\ UNCHANGED <<sync_state, collector>>

\* The server side answers a published query with r on xmpp.mam.*: every
\* live subscription gets it, and with no subscriber it is discarded
XmppPublish(r) ==
    /\ MamStep
    /\ mamPc \in {"subscribe", "collect"}
    /\ MCount("xmpp") < MaxMamResponses
    /\ mLog' = Append(mLog, MXmpp(r, IsSome(collector)))
    /\ collector' = IF IsSome(collector)
                    THEN Some(Append(Unwrap(collector), r))
                    ELSE None
    /\ UNCHANGED <<mamPc, mamCall, sync_state, messages>>

MamNext ==
    \/ \E e \in MamEvents : MamHandleEvent(e)
    \/ MamSendQuery
    \/ MamSubscribe
    \/ MamCollectResult
    \/ MamCollectFin
    \/ MamCollectTimeout
    \/ MamSyncPage
    \/ MamFetchPage
    \/ \E r \in MamResponses : XmppPublish(r)

(***************************************************************************)
(* Claims about the MamManager (checked under SpecMam)                     *)
(***************************************************************************)
MIsHandle(i, type) == mLog[i].kind = "handle" /\ mLog[i].ev.type = type

\* The handle_event call logged at i has returned
MReturned(i) == \E r \in (i + 1)..Len(mLog) : mLog[r].kind = "return"

\* The last entry of the call logged at i: its return, or the end of the log
MSpanEnd(i) ==
    IF MReturned(i)
    THEN CHOOSE r \in (i + 1)..Len(mLog) :
            /\ mLog[r].kind = "return"
            /\ \A k \in (i + 1)..(r - 1) : mLog[k].kind # "return"
    ELSE Len(mLog)

\* The publications of the call logged at i
MPublishedIn(i) ==
    { k \in (i + 1)..MSpanEnd(i) : mLog[k].kind = "publish" }

MStartsSync(k) ==
    mLog[k].ev.chan \in {"ui.mam.query", "system.sync.started"}

MIsOwnPresence(i, shows) ==
    MIsHandle(i, "OwnPresenceChanged") /\ mLog[i].ev.show \in shows

OnlineShows == {"available", "chat", "away", "xa", "dnd"}

\* C4: handle_event(ConnectionEstablished) publishes no ui.mam.query and no
\* system.sync.started unless an OwnPresenceChanged with show # unavailable
\* was handled before.
C4_ConnectionAloneStartsNoSync ==
    \A i \in 1..Len(mLog) :
        MIsHandle(i, "ConnectionEstablished")
            => \A k \in MPublishedIn(i) :
                  MStartsSync(k)
                      => \E h \in 1..(i - 1) : MIsOwnPresence(h, OnlineShows)

\* C5: a handle_event(OwnPresenceChanged) with show # unavailable that has
\* returned has published system.sync.started and then ui.mam.query; and if
\* the server published a fin with complete = true during the call and the
\* call succeeded, the results published before that fin are stored and the
\* "__global__" cursor is set.
C5_OwnPresenceStartsSync ==
    \A i \in 1..Len(mLog) :
        (MIsOwnPresence(i, OnlineShows) /\ MReturned(i))
            => /\ \E st \in MPublishedIn(i), q \in MPublishedIn(i) :
                    /\ st < q
                    /\ mLog[st].ev.chan = "system.sync.started"
                    /\ mLog[q].ev.chan = "ui.mam.query"
               /\ \A f \in (i + 1)..MSpanEnd(i) :
                    ( /\ mLog[f].kind = "xmpp"
                      /\ mLog[f].ev.chan = "xmpp.mam.fin.received"
                      /\ mLog[f].ev.complete
                      /\ mLog[MSpanEnd(i)].result = "ok"
                      /\ MSpanEnd(i) = Len(mLog) )
                    => /\ IsSome(get_last_stanza_id(""))
                       /\ \A r \in (i + 1)..(f - 1) :
                            ( mLog[r].kind = "xmpp"
                              /\ mLog[r].ev.chan = "xmpp.mam.result.received" )
                            => \A n \in 1..Len(mLog[r].ev.messages) :
                                  mLog[r].ev.messages[n].id \in StoredIds(messages)

\* C6: handle_event(OwnPresenceChanged{show: unavailable}) publishes no
\* ui.mam.query and no system.sync.started, whatever was handled before.
C6_UnavailableStartsNoSync ==
    \A i \in 1..Len(mLog) :
        MIsOwnPresence(i, {"unavailable"})
            => \A k \in MPublishedIn(i) : ~MStartsSync(k)

\* C6 witness: OwnPresenceChanged{unavailable} was handled after a
\* ConnectionEstablished whose sync ran to completion.
C6_Witness ==
    \E i \in 1..Len(mLog) :
        /\ MIsOwnPresence(i, {"unavailable"})
        /\ MReturned(i)
        /\ \E h \in 1..(i - 1) :
              /\ MIsHandle(h, "ConnectionEstablished")
              /\ mLog[MSpanEnd(h)].kind = "return"
              /\ mLog[MSpanEnd(h)].result = "ok"

\* The handle_event call that the log entry at k belongs to
MCallOf(k) ==
    CHOOSE i \in 1..k :
        /\ mLog[i].kind = "handle"
        /\ \A h \in (i + 1)..k : mLog[h].kind # "handle"

MIsPublish(k, chan) == mLog[k].kind = "publish" /\ mLog[k].ev.chan = chan

\* The ui.mam.query publications and the returned pages of the call at i
MQueriesIn(i) == { k \in MPublishedIn(i) : mLog[k].ev.chan = "ui.mam.query" }
MPagesIn(i) == { k \in (i + 1)..MSpanEnd(i) : mLog[k].kind = "page" }

\* The number of messages in the pages logged at the indices in S
RECURSIVE MessagesIn(_)
MessagesIn(S) ==
    IF S = {} THEN 0
    ELSE LET k == CHOOSE x \in S : TRUE
         IN Len(mLog[k].messages) + MessagesIn(S \ {k})

\* C21: every system.sync.completed in the log follows a system.sync.started
\* that the same handle_event call published with the same correlation_id,
\* every ui.mam.query of that call lies between the two, no other call used
\* that correlation_id, and messages_synced is the number of messages in all
\* the pages the call's collector returned.
C21_SyncCompletedPairsWithStarted ==
    \A k \in 1..Len(mLog) :
        MIsPublish(k, "system.sync.completed")
            => LET i == MCallOf(k) IN
               /\ \E st \in (i + 1)..(k - 1) :
                    /\ MIsPublish(st, "system.sync.started")
                    /\ mLog[st].ev.correlation_id = mLog[k].ev.correlation_id
                    /\ \A q \in MQueriesIn(i) : st < q /\ q < k
               /\ MQueriesIn(i) # {}
               /\ \A o \in 1..Len(mLog) :
                    ( /\ mLog[o].kind = "publish"
                      /\ mLog[o].ev.chan \in {"system.sync.started",
                                               "system.sync.completed"}
                      /\ mLog[o].ev.correlation_id = mLog[k].ev.correlation_id )
                    => MCallOf(o) = i
               /\ mLog[k].ev.messages_synced = MessagesIn(MPagesIn(i))

\* C21 witness: a sync that took two pages, the first with a message, has
\* published system.sync.completed.
C21_Witness ==
    \E k \in 1..Len(mLog) :
        /\ MIsPublish(k, "system.sync.completed")
        /\ Cardinality(MPagesIn(MCallOf(k))) = 2
        /\ mLog[k].ev.messages_synced >= 1

\* The cursor stored for "__global__", read from the table itself
StoredCursor ==
    IF GlobalKey \in DOMAIN sync_state THEN Some(sync_state[GlobalKey]) ELSE None

\* The last id of a returned page: the fin's last_id when present, otherwise
\* the id of the last message, otherwise none
PageLastId(pg) ==
    IF IsSome(pg.fin.last_id) THEN pg.fin.last_id
    ELSE IF pg.messages # <<>> THEN Some(pg.messages[Len(pg.messages)].id)
    ELSE None

MaxOfSet(S) == CHOOSE x \in S : \A y \in S : y <= x

\* This step appends one entry to the log, a publication on chan
MPublishes(chan) ==
    /\ Len(mLog') = Len(mLog) + 1
    /\ mLog'[Len(mLog')].kind = "publish"
    /\ mLog'[Len(mLog')].ev.chan = chan

\* C22: whenever sync_since publishes a ui.mam.query, before is None and max
\* is 50; the first query of the call has after = the stored "__global__"
\* cursor (None when there is none), and a later one has after = the last id
\* of the page returned just before, or the previous query's after when that
\* page had no id.
C22_SyncQueryCursor ==
    [][ ( /\ MPublishes("ui.mam.query")
          /\ MIsHandle(MCallOf(Len(mLog)), "ConnectionEstablished") )
        => LET q == mLog'[Len(mLog')].ev
               i == MCallOf(Len(mLog))
           IN /\ q.before = None
              /\ q.max = 50
              /\ IF MQueriesIn(i) = {}
                 THEN q.after = StoredCursor
                 ELSE LET pq == MaxOfSet(MQueriesIn(i))
                          pg == MaxOfSet(MPagesIn(i))
                      IN /\ pq < pg
                         /\ q.after = IF IsSome(PageLastId(mLog[pg]))
                                      THEN PageLastId(mLog[pg])
                                      ELSE mLog[pq].ev.after
      ]_vars

\* C22 witness: a sync that started from a stored cursor has published a
\* second query, after a first page that had an id.
C22_Witness ==
    \E i \in 1..Len(mLog) :
        /\ MIsHandle(i, "ConnectionEstablished")
        /\ Cardinality(MQueriesIn(i)) = 2
        /\ \E q \in MQueriesIn(i) : mLog[q].ev.after = Some("m0")
        /\ \E q \in MQueriesIn(i) : mLog[q].ev.after = Some("m1")

\* sync_since is about to process the page its collector just returned
MSyncPageReturned ==
    /\ mLog # <<>>
    /\ mLog[Len(mLog)].kind = "page"
    /\ MIsHandle(MCallOf(Len(mLog)), "ConnectionEstablished")

\* C23: the step in which sync_since processes a returned page leaves the
\* "__global__" cursor at the page's last id L (the fin's last_id when
\* present, otherwise the id of the page's last message), and leaves it as it
\* was when the page has neither; no other step changes the cursor.
C23_CursorFollowsPage ==
    [][ /\ MSyncPageReturned
            => StoredCursor' = IF IsSome(PageLastId(mLog[Len(mLog)]))
                               THEN PageLastId(mLog[Len(mLog)])
                               ELSE StoredCursor
        /\ StoredCursor' # StoredCursor => MSyncPageReturned
      ]_vars

\* C23 witness: a page of two messages closed by a fin without last_id has
\* been processed and the cursor is the id of its last message.
C23_Witness ==
    /\ mamPc # "persist"
    /\ mLog # <<>>
    /\ \E k \in MPagesIn(MCallOf(Len(mLog))) :
          /\ MIsHandle(MCallOf(k), "ConnectionEstablished")
          /\ Len(mLog[k].messages) = 2
          /\ mLog[k].fin.last_id = None
    /\ StoredCursor = Some("m1")

\* The ids of the messages of every page a collector has returned
MPagedIds ==
    UNION { { mLog[k].messages[n].id : n \in 1..Len(mLog[k].messages) } :
              k \in { p \in 1..Len(mLog) : mLog[p].kind = "page" } }

\* The sync_since call at a has returned Timeout
MSyncTimedOut(a) ==
    /\ MIsHandle(a, "ConnectionEstablished")
    /\ MReturned(a)
    /\ mLog[MSpanEnd(a)].result = "timeout"

\* The first handle_event(ConnectionEstablished) logged after r, if any
MNextSyncAfter(r) ==
    { b \in (r + 1)..Len(mLog) :
        /\ MIsHandle(b, "ConnectionEstablished")
        /\ \A h \in (r + 1)..(b - 1) : ~MIsHandle(h, "ConnectionEstablished") }

MFirstQueryOf(i) == CHOOSE q \in MQueriesIn(i) : \A o \in MQueriesIn(i) : q <= o

\* The cursor a timed-out sync_since at a must leave: the last id of its last
\* page that had one, or what its first query shows the cursor was before
MCursorLeftBy(a) ==
    LET withId == { p \in MPagesIn(a) : IsSome(PageLastId(mLog[p])) }
    IN IF withId # {}
       THEN PageLastId(mLog[MaxOfSet(withId)])
       ELSE mLog[MFirstQueryOf(a)].ev.after

\* The collector of a sync_since waits with nothing to receive
MSyncCollectorIdle ==
    /\ mamPc = "collect"
    /\ collector = Some(<<>>)
    /\ mamCall.kind = "sync"

\* C24: when the collector of a sync_since has nothing to receive and its
\* timer fires, the call returns Timeout and neither the cursor nor the
\* messages table changes; right after a timed-out sync the cursor is the
\* last id of the call's last completed page that had one (or the cursor of
\* before the call), no stored message comes from outside a completed page,
\* and the first query of the next sync_since has that cursor as after.
C24_TimeoutKeepsCursor ==
    /\ []( \A a \in 1..Len(mLog) :
             MSyncTimedOut(a)
                 => /\ MSpanEnd(a) = Len(mLog)
                        => /\ StoredCursor = MCursorLeftBy(a)
                           /\ StoredIds(messages) \subseteq MPagedIds
                    /\ \A b \in MNextSyncAfter(MSpanEnd(a)) :
                          MQueriesIn(b) # {}
                              => mLog[MFirstQueryOf(b)].ev.after
                                     = MCursorLeftBy(a) )
    /\ [][ ( /\ MSyncCollectorIdle
              /\ mLog'[Len(mLog')].kind # "xmpp" )
            => /\ mLog' = Append(mLog, MReturn("timeout"))
               /\ sync_state' = sync_state
               /\ messages' = messages
               /\ mamPc' = "idle"
          ]_vars

\* C24 witness: a sync_since that started from a stored cursor collected a
\* message and then timed out, and the next sync_since has published its
\* first query.
C24_Witness ==
    \E a \in 1..Len(mLog) :
        /\ MSyncTimedOut(a)
        /\ mLog[MFirstQueryOf(a)].ev.after = Some("m0")
        /\ \E x \in (a + 1)..(MSpanEnd(a) - 1) :
              /\ mLog[x].kind = "xmpp"
              /\ mLog[x].delivered
              /\ mLog[x].ev.chan = "xmpp.mam.result.received"
        /\ \E b \in MNextSyncAfter(MSpanEnd(a)) : MQueriesIn(b) # {}

\* C25: every handle_event call whose sync_since or fetch_history failed has
\* published a system.error.occurred event carrying a recoverable flag.
C25_FailurePublishesError ==
    \A i \in 1..Len(mLog) :
        ( /\ mLog[i].kind = "handle"
          /\ MReturned(i)
          /\ mLog[MSpanEnd(i)].result = "timeout" )
            => \E k \in MPublishedIn(i) :
                  /\ mLog[k].ev.chan = "system.error.occurred"
                  /\ "recoverable" \in DOMAIN mLog[k].ev

\* The page logged at p calls for another page
MPageContinues(p) ==
    ~mLog[p].fin.complete /\ Len(mLog[p].messages) >= 1

\* C26: in a sync_since call, what follows a returned page is a further
\* ui.mam.query if the page's fin had complete = false and the page had at
\* least one message, and otherwise system.sync.completed and the call's
\* return at once; a page that is processed and followed by nothing yet is
\* one that continues, with the next query about to be sent.
C26_ContinueIffIncompleteAndNonEmpty ==
    \A p \in 1..Len(mLog) :
        ( mLog[p].kind = "page"
          /\ MIsHandle(MCallOf(p), "ConnectionEstablished") )
            => /\ p < Len(mLog)
                    => IF MPageContinues(p)
                       THEN MIsPublish(p + 1, "ui.mam.query")
                       ELSE /\ MIsPublish(p + 1, "system.sync.completed")
                            /\ p + 2 <= Len(mLog)
                            /\ mLog[p + 2] = MReturn("ok")
               /\ (p = Len(mLog) /\ mamPc # "persist")
                    => MPageContinues(p) /\ mamPc = "query"

\* C26 witness: a sync went on after a first page that was incomplete with a
\* message, and stopped after a second page that was incomplete and empty.
C26_Witness ==
    \E p \in 1..Len(mLog), e \in 1..Len(mLog) :
        /\ p < e /\ e < Len(mLog)
        /\ mLog[p].kind = "page" /\ mLog[e].kind = "page"
        /\ MIsHandle(MCallOf(p), "ConnectionEstablished")
        /\ MCallOf(e) = MCallOf(p)
        /\ MPageContinues(p)
        /\ mLog[e].messages = <<>> /\ ~mLog[e].fin.complete
        /\ MIsPublish(e + 1, "system.sync.completed")

\* The pages that have been persisted: all that were returned, but the one
\* that is being processed
MPersistedPages ==
    { p \in 1..Len(mLog) :
        /\ mLog[p].kind = "page"
        /\ ~(p = Len(mLog) /\ mamPc = "persist") }

MinOfSet(S) == CHOOSE x \in S : \A y \in S : x <= y

MPositionsOf(p, id) ==
    { n \in 1..Len(mLog[p].messages) : mLog[p].messages[n].id = id }

\* The ids in the persisted pages, and the message that came first for id
MPersistedIds ==
    UNION { { mLog[p].messages[n].id : n \in 1..Len(mLog[p].messages) } :
              p \in MPersistedPages }

MFirstDelivered(id) ==
    LET p == MinOfSet({ o \in MPersistedPages : MPositionsOf(o, id) # {} })
    IN mLog[p].messages[MinOfSet(MPositionsOf(p, id))]

\* C27: the messages table never holds two rows with the same id; its rows
\* are, for each id in the pages persisted so far by sync_since and
\* fetch_history, the row of the message that was delivered first with that
\* id; and no step removes or changes a stored row.
C27_PersistIdempotentOnId ==
    /\ []( /\ \A r1 \in messages, r2 \in messages :
                r1.id = r2.id => r1 = r2
           /\ messages =
                { MessageRow(MFirstDelivered(id)) : id \in MPersistedIds } )
    /\ [][ messages \subseteq messages' ]_vars

\* C27 witness: a persisted page delivered id m1 again with another body
\* and the stored row for m1 still has the body stored first.
C27_Witness ==
    /\ \E row \in messages : row.id = "m1" /\ row.body = "x"
    /\ \E p \in MPersistedPages :
          \E n \in 1..Len(mLog[p].messages) :
              /\ mLog[p].messages[n].id = "m1"
              /\ mLog[p].messages[n].body = "z"

\* The messages from jid in the pages persisted before the call logged at i
MKnownBefore(i, jid) ==
    UNION { { mLog[p].messages[n] : n \in 1..Len(mLog[p].messages) } :
              p \in { o \in MPersistedPages : o < i } }
        \cap { ChatMessage(id, jid, body, ts) :
                 id \in {"m1", "m2"}, body \in {"x", "y", "z"}, ts \in 1..2 }

\* The id of the oldest message known for jid before the call at i, if any
MOldestKnownId(i, jid) ==
    IF MKnownBefore(i, jid) = {} THEN None
    ELSE Some((CHOOSE msg \in MKnownBefore(i, jid) :
                 \A o \in MKnownBefore(i, jid) :
                     msg.timestamp <= o.timestamp).id)

\* C28: a handle_event(ScrollRequested{jid, Up}) call publishes at most one
\* ui.mam.query, one once it has returned, with after = None and before =
\* the id of the oldest message known for jid, and after a successful return
\* the messages of its page are stored; a ScrollRequested with another
\* direction publishes no query.
C28_ScrollUpQueriesBeforeOldest ==
    \A i \in 1..Len(mLog) :
        MIsHandle(i, "ScrollRequested")
            => IF mLog[i].ev.direction = "Up"
               THEN /\ Cardinality(MQueriesIn(i)) <= 1
                    /\ MReturned(i) => Cardinality(MQueriesIn(i)) = 1
                    /\ \A q \in MQueriesIn(i) :
                          /\ mLog[q].ev.after = None
                          /\ mLog[q].ev.before
                                = MOldestKnownId(i, mLog[i].ev.jid)
                    /\ (MReturned(i) /\ mLog[MSpanEnd(i)].result = "ok")
                          => \A p \in MPagesIn(i) :
                               \A n \in 1..Len(mLog[p].messages) :
                                 mLog[p].messages[n].id \in StoredIds(messages)
               ELSE MQueriesIn(i) = {}

\* C40: no step of a fetch_history call changes the mam_sync_state table,
\* whether the call succeeds or times out, so get_last_stanza_id returns for
\* every jid what it returned before the call; the table changes only in a
\* step of a sync_since call.
C40_FetchHistoryKeepsCursor ==
    [][ /\ (IsSome(mamCall) /\ mamCall.kind = "fetch")
            => sync_state' = sync_state
        /\ sync_state' # sync_state
            => IsSome(mamCall) /\ mamCall.kind = "sync"
      ]_vars

\* C40 witness: a fetch_history whose page had an id has returned, and the
\* cursor is still the one stored before.
C40_Witness ==
    /\ mamPc = "idle"
    /\ mLog # <<>>
    /\ MIsHandle(MCallOf(Len(mLog)), "ScrollRequested")
    /\ mLog[Len(mLog)] = MReturn("ok")
    /\ \E p \in MPagesIn(MCallOf(Len(mLog))) : IsSome(PageLastId(mLog[p]))
    /\ StoredCursor = Some("m0")

\* C36: every xmpp.mam.* response published after the ui.mam.query of a page
\* reaches that page's collector, and a page whose responder published a
\* fin does not end in Timeout.
C36_ResponsesReachCollector ==
    /\ \A k \in 1..Len(mLog) : mLog[k].kind = "xmpp" => mLog[k].delivered
    /\ \A t \in 1..Len(mLog) :
          (mLog[t].kind = "return" /\ mLog[t].result = "timeout")
              => \A q \in 1..(t - 1) :
                    (/\ MIsPublish(q, "ui.mam.query")
                     /\ \A x \in (q + 1)..(t - 1) :
                           ~MIsPublish(x, "ui.mam.query"))
                        => \A x \in (q + 1)..(t - 1) :
                              ~(/\ mLog[x].kind = "xmpp"
                                /\ mLog[x].ev.chan = "xmpp.mam.fin.received")

(***************************************************************************)
(* ConnectionManager                                                       *)
(***************************************************************************)
MaxConfigAttempts == 2   \* largest max_reconnect_attempts configured
MaxTries          == 4   \* transport attempts followed within one connect()

ConfigJid == JidA

\* ConnectionState; attempt is 0 unless the state is Reconnecting
ConnState(name) == [name |-> name, attempt |-> 0]
Reconnecting(n) == [name |-> "Reconnecting", attempt |-> n]

\* The errors T::connect and close return in the model
TransportErrors ==
    {"timeout", "network", "server_disconnect",
     "authentication", "protocol", "configuration"}

\* ConnectionError::is_retryable
IsRetryable(error) == error \in {"timeout", "network", "server_disconnect"}

\* u32::saturating_add(1): n stays when it is u32::MAX = 65535 * 65536 + 65535
\* (tested by halves, the whole number being beyond the checker's integers)
SaturatingAdd1_Stuck(n) == n

SaturatingAdd1(n) ==
    IF n \div 65536 >= 65535 /\ n % 65536 >= 65535 THEN n ELSE n + 1

should_retry_Strict(attempt) ==
    max_reconnect_attempts = 0 \/ attempt < max_reconnect_attempts

should_retry(attempt) ==
    max_reconnect_attempts = 0 \/ attempt <= max_reconnect_attempts

\* let will_retry = error.is_retryable() && self.should_retry(next_attempt)
will_retry_Unclassified(error, next_attempt) == should_retry(next_attempt)

will_retry(error, next_attempt) ==
    IsRetryable(error) /\ should_retry(next_attempt)

\* Published by the ConnectionManager
EstablishedEv_NoJid(jid) ==
    [chan |-> "system.connection.established", jid |-> <<>>]

EstablishedEv(jid) == [chan |-> "system.connection.established", jid |-> jid]
LostEv(reason, retry) ==
    [chan |-> "system.connection.lost", reason |-> reason,
     will_retry |-> retry]
ReconnectingEv(n) == [chan |-> "system.connection.reconnecting", attempt |-> n]
\* emit_connection_error
ErrorEv(error) ==
    [chan |-> "system.error.occurred", component |-> "connection",
     message |-> error, recoverable |-> IsRetryable(error)]

\* Entries of the ConnectionManager's log
CCall(op)     == [kind |-> "call", op |-> op]
CAttempt(out) == [kind |-> "attempt", outcome |-> out]
CPublish(p)   == [kind |-> "publish", ev |-> p]
CReturn(r)    == [kind |-> "return", result |-> r]

\* cLog holds the latest call: its CCall entry first, then what it did.
\* Transport attempts made so far by the call in progress
CTries == Cardinality({ i \in 1..Len(cLog) : cLog[i].kind = "attempt" })

ConnStep == UNCHANGED <<presVars, mamVars, others>>

ConnInit ==
    /\ state = ConnState("Disconnected")
    /\ transport = FALSE
    /\ max_reconnect_attempts \in 0..MaxConfigAttempts
    /\ connPc = "idle"
    /\ reconnect_attempt = 0
    /\ cLog = <<>>

\* connect() called while Connected: returns Ok at once
ConnectWhenConnected ==
    /\ ConnStep
    /\ connPc = "idle"
    /\ state.name = "Connected"
    /\ cLog' = <<CCall("connect"), CReturn("ok")>>
    /\ UNCHANGED <<state, transport, max_reconnect_attempts, connPc,
                   reconnect_attempt>>

\* connect(): state = Connecting, reconnect_attempt = 0, enter the loop
ConnectBegin_KeepsCount ==
    /\ ConnStep
    /\ connPc = "idle"
    /\ state.name # "Connected"
    /\ state' = ConnState("Connecting")
    /\ connPc' = "attempt"
    /\ cLog' = <<CCall("connect")>>
    /\ UNCHANGED <<transport, max_reconnect_attempts, reconnect_attempt>>

ConnectBegin ==
    /\ ConnStep
    /\ connPc = "idle"
    /\ state.name # "Connected"
    /\ state' = ConnState("Connecting")
    /\ reconnect_attempt' = 0
    /\ connPc' = "attempt"
    /\ cLog' = <<CCall("connect")>>
    /\ UNCHANGED <<transport, max_reconnect_attempts>>

\* connect(): T::connect returns Ok(transport)
ConnectTransportOk ==
    /\ ConnStep
    /\ connPc = "attempt"
    /\ transport' = TRUE
    /\ state' = ConnState("Connected")
    /\ cLog' = cLog \o <<CAttempt("ok"), CPublish(EstablishedEv(ConfigJid)),
                         CReturn("ok")>>
    /\ connPc' = "idle"
    /\ UNCHANGED <<max_reconnect_attempts, reconnect_attempt>>

\* connect(): T::connect returns Err(error)
ConnectTransportErr(error) ==
    /\ ConnStep
    /\ connPc = "attempt"
    /\ transport' = FALSE
    /\ LET next_attempt == SaturatingAdd1(reconnect_attempt)
           retry == will_retry(error, next_attempt)
           emitted == <<CAttempt(error), CPublish(LostEv(error, retry)),
                        CPublish(ErrorEv(error))>>
       IN  IF ~retry
           THEN /\ state' = ConnState("Disconnected")
                /\ cLog' = cLog \o emitted \o <<CReturn(error)>>
                /\ connPc' = "idle"
                /\ UNCHANGED reconnect_attempt
           ELSE /\ reconnect_attempt' = next_attempt
                /\ state' = Reconnecting(next_attempt)
                /\ cLog' = cLog \o emitted
                              \o <<CPublish(ReconnectingEv(next_attempt))>>
                /\ connPc' = "sleep"
    /\ UNCHANGED max_reconnect_attempts

\* connect(): the backoff sleep ends, state = Connecting, next attempt
ConnectSleepDone ==
    /\ ConnStep
    /\ connPc = "sleep"
    /\ CTries < MaxTries
    /\ state' = ConnState("Connecting")
    /\ connPc' = "attempt"
    /\ UNCHANGED <<transport, max_reconnect_attempts, reconnect_attempt, cLog>>

\* disconnect() that would not take the transport out of the manager
DisconnectOk_KeepsTransport ==
    /\ ConnStep
    /\ connPc = "idle"
    /\ cLog' = <<CCall("disconnect")>>
                 \o (IF state.name # "Disconnected"
                     THEN <<CPublish(LostEv("user requested disconnect",
                                            FALSE))>>
                     ELSE <<>>)
                 \o <<CReturn("ok")>>
    /\ state' = ConnState("Disconnected")
    /\ UNCHANGED <<transport, max_reconnect_attempts, connPc,
                   reconnect_attempt>>

\* disconnect() publishing system.connection.lost whatever the state was
DisconnectOk_AlwaysLost ==
    /\ ConnStep
    /\ connPc = "idle"
    /\ transport' = FALSE
    /\ cLog' = <<CCall("disconnect"),
                 CPublish(LostEv("user requested disconnect", FALSE)),
                 CReturn("ok")>>
    /\ state' = ConnState("Disconnected")
    /\ UNCHANGED <<max_reconnect_attempts, connPc, reconnect_attempt>>

\* disconnect(), transport.close() succeeding or no transport held
DisconnectOk ==
    /\ ConnStep
    /\ connPc = "idle"
    /\ transport' = FALSE
    /\ cLog' = <<CCall("disconnect")>>
                 \o (IF state.name # "Disconnected"
                     THEN <<CPublish(LostEv("user requested disconnect",
                                            FALSE))>>
                     ELSE <<>>)
                 \o <<CReturn("ok")>>
    /\ state' = ConnState("Disconnected")
    /\ UNCHANGED <<max_reconnect_attempts, connPc, reconnect_attempt>>

\* disconnect() returning the close error at once, as `close().await?` would
DisconnectCloseErr_EarlyReturn(error) ==
    /\ ConnStep
    /\ connPc = "idle"
    /\ transport
    /\ transport' = FALSE
    /\ cLog' = <<CCall("disconnect"), CReturn(error)>>
    /\ UNCHANGED <<state, max_reconnect_attempts, connPc, reconnect_attempt>>

\* disconnect(), transport.close() failing with error
DisconnectCloseErr(error) ==
    /\ ConnStep
    /\ connPc = "idle"
    /\ transport
    /\ transport' = FALSE
    /\ state' = ConnState("Disconnected")
    /\ cLog' = <<CCall("disconnect"), CPublish(LostEv(error, FALSE)),
                  CPublish(ErrorEv(error)), CReturn(error)>>
    /\ UNCHANGED <<max_reconnect_attempts, connPc, reconnect_attempt>>

ConnNext ==
    \/ ConnectWhenConnected
    \/ ConnectBegin
    \/ ConnectTransportOk
    \/ \E error \in TransportErrors : ConnectTransportErr(error)
    \/ ConnectSleepDone
    \/ DisconnectOk
    \/ \E error \in TransportErrors : DisconnectCloseErr(error)

(***************************************************************************)
(* Claims about ConnectionManager.connect() (checked under SpecConn)       *)
(***************************************************************************)
\* Entry i is a transport attempt that failed
CIsFail(i) == cLog[i].kind = "attempt" /\ cLog[i].outcome # "ok"

\* The logged call is a connect() that entered the loop
CIsConnect == Len(cLog) > 1 /\ cLog[1] = CCall("connect")

\* The logged call has returned
CReturned == Len(cLog) > 0 /\ cLog[Len(cLog)].kind = "return"

CIsReconnecting(k) ==
    /\ cLog[k].kind = "publish"
    /\ cLog[k].ev.chan = "system.connection.reconnecting"

\* Reconnects the call had made when it ran the attempt logged at i
CReconnectsBefore(i) == Cardinality({ k \in 1..i : CIsReconnecting(k) })

\* The transport attempts of the logged call
CAttempts == { a \in 1..Len(cLog) : cLog[a].kind = "attempt" }

CLastAttempt == CHOOSE a \in CAttempts : \A b \in CAttempts : b <= a

\* C7: for every failed attempt the system.connection.lost event carries
\* will_retry = is_retryable(error) /\ (max = 0 \/ attempt + 1 <= max), attempt
\* being the reconnects already made by this call; connect() goes on to
\* reconnect exactly when the flag is true and returns the error otherwise.
C7_WillRetryFlag ==
    \A i \in 1..Len(cLog) :
        CIsFail(i) =>
            LET n == CReconnectsBefore(i)
                expected ==
                    /\ IsRetryable(cLog[i].outcome)
                    /\ ( max_reconnect_attempts = 0
                         \/ n + 1 <= max_reconnect_attempts )
            IN  /\ cLog[i + 1].kind = "publish"
                /\ cLog[i + 1].ev.chan = "system.connection.lost"
                /\ cLog[i + 1].ev.will_retry = expected
                /\ IF expected
                   THEN /\ cLog[i + 3] = CPublish(ReconnectingEv(n + 1))
                        /\ i + 4 <= Len(cLog) => cLog[i + 4].kind = "attempt"
                   ELSE cLog[i + 3] = CReturn(cLog[i].outcome)

\* C7 witness: a retryable failure was retried and the next retryable failure
\* exhausted the configured attempts.
C7_Witness ==
    \E i \in 1..Len(cLog) :
        /\ CIsFail(i)
        /\ IsRetryable(cLog[i].outcome)
        /\ CReconnectsBefore(i) >= 1
        /\ ~cLog[i + 1].ev.will_retry

\* C8: for every failed attempt the system.error.occurred event has
\* component = "connection" and recoverable equal to the will_retry flag of
\* the system.connection.lost event of the same failure.
C8_RecoverableIsWillRetry ==
    \A i \in 1..Len(cLog) :
        CIsFail(i) =>
            /\ cLog[i + 2].kind = "publish"
            /\ cLog[i + 2].ev.chan = "system.error.occurred"
            /\ cLog[i + 2].ev.component = "connection"
            /\ cLog[i + 2].ev.recoverable = cLog[i + 1].ev.will_retry

NonRetryableErrors == {"authentication", "protocol", "configuration"}

\* C9: after an attempt fails with an authentication, protocol or
\* configuration error, connect() publishes the lost and error events and
\* returns that error: no further attempt, no reconnecting event, state
\* Disconnected and no transport held, whatever max_reconnect_attempts is.
C9_NonRetryableStops ==
    \A i \in 1..Len(cLog) :
        (CIsFail(i) /\ cLog[i].outcome \in NonRetryableErrors) =>
            /\ ~CIsReconnecting(i + 1)
            /\ ~CIsReconnecting(i + 2)
            /\ cLog[i + 3] = CReturn(cLog[i].outcome)
            /\ i + 3 = Len(cLog) =>
                  /\ state = ConnState("Disconnected")
                  /\ ~transport
                  /\ connPc = "idle"

\* C9 witness: connect() has just returned an authentication failure met
\* after a reconnect.
C9_Witness ==
    /\ Len(cLog) > 3
    /\ CIsFail(Len(cLog) - 3)
    /\ cLog[Len(cLog) - 3].outcome = "authentication"
    /\ CReconnectsBefore(Len(cLog) - 3) >= 1

CPublished(log) ==
    LET IsPublish(e) == e.kind = "publish"
        EvOf(i) == SelectSeq(log, IsPublish)[i].ev
    IN  [i \in 1..Len(SelectSeq(log, IsPublish)) |-> EvOf(i)]

\* Positions of the logged call's publications on channel chan
CPublishedOn(chan) ==
    { k \in 1..Len(cLog) : cLog[k].kind = "publish" /\ cLog[k].ev.chan = chan }

\* C12: a connect() that returned success ends in state Connected; unless
\* the manager was already Connected at the call (no attempt made) it
\* published exactly one system.connection.established, carrying the
\* configured jid, after every lost / reconnecting event of the call.  A
\* connect() that is still running or returned an error published none.
C12_EstablishedOnSuccess ==
    (Len(cLog) > 0 /\ cLog[1] = CCall("connect")) =>
        LET est == CPublishedOn("system.connection.established")
        IN  IF CReturned /\ cLog[Len(cLog)].result = "ok"
            THEN /\ state = ConnState("Connected")
                 /\ IF CAttempts = {}
                    THEN est = {}
                    ELSE /\ Cardinality(est) = 1
                         /\ \A k \in est :
                               /\ cLog[k].ev.jid = ConfigJid
                               /\ \A j \in
                                    CPublishedOn("system.connection.lost")
                                    \cup CPublishedOn(
                                        "system.connection.reconnecting") :
                                     j < k
            ELSE est = {}

\* C12 witness: connect() returned success after at least one reconnect.
C12_Witness ==
    /\ CIsConnect
    /\ CReturned
    /\ cLog[Len(cLog)].result = "ok"
    /\ CPublishedOn("system.connection.reconnecting") # {}

\* C13: every disconnect() leaves state Disconnected and no transport held;
\* when close succeeded (the call returned ok) it published exactly one
\* system.connection.lost {reason: "user requested disconnect", will_retry:
\* false} if the state before the call was not Disconnected and nothing if
\* it was.
C13_DisconnectLeavesDisconnected ==
    [][ ( /\ cLog' # cLog
          /\ Len(cLog') > 0
          /\ cLog'[1] = CCall("disconnect") )
        => /\ state' = ConnState("Disconnected")
           /\ ~transport'
           /\ cLog'[Len(cLog')].result = "ok" =>
                 CPublished(cLog') =
                    IF state.name # "Disconnected"
                    THEN << [chan |-> "system.connection.lost",
                             reason |-> "user requested disconnect",
                             will_retry |-> FALSE] >>
                    ELSE <<>>
      ]_vars

\* C13 witness: a disconnect() of a Connected manager has returned ok.
C13_Witness ==
    /\ Len(cLog) = 3
    /\ cLog[1] = CCall("disconnect")
    /\ cLog[2].kind = "publish"
    /\ cLog[3] = CReturn("ok")
    /\ state = ConnState("Disconnected")

\* C14: a disconnect() whose transport.close() failed leaves state
\* Disconnected and no transport held, has published exactly one
\* system.connection.lost, with will_retry = false, and a
\* system.error.occurred, and returned the close error.
C14_CloseErrorStillDisconnects ==
    ( /\ Len(cLog) > 0
      /\ cLog[1] = CCall("disconnect")
      /\ cLog[Len(cLog)].result # "ok" )
    => /\ state = ConnState("Disconnected")
       /\ ~transport
       /\ Cardinality(CPublishedOn("system.connection.lost")) = 1
       /\ \A k \in CPublishedOn("system.connection.lost") :
             ~cLog[k].ev.will_retry
       /\ Cardinality(CPublishedOn("system.error.occurred")) = 1
       /\ \A k \in CPublishedOn("system.error.occurred") :
             /\ cLog[k].ev.message = cLog[Len(cLog)].result
             /\ \A j \in CPublishedOn("system.connection.lost") : j < k
       /\ cLog[Len(cLog)].result \in TransportErrors

\* C14 witness: a disconnect() has returned the network error close() gave.
C14_Witness ==
    /\ Len(cLog) > 0
    /\ cLog[1] = CCall("disconnect")
    /\ cLog[Len(cLog)] = CReturn("network")

C39_ReconnectingCountsUp ==
    /\ \A k \in 1..Len(cLog) :
          CIsReconnecting(k)
              => /\ cLog[k].ev.attempt = CReconnectsBefore(k)
                 /\ k >= 5
                 /\ CIsFail(k - 3)
                 /\ cLog[k - 2] = CPublish(LostEv(cLog[k - 3].outcome, TRUE))
                 /\ cLog[k - 1].kind = "publish"
                 /\ cLog[k - 1].ev.chan = "system.error.occurred"
                 /\ k < Len(cLog) => cLog[k + 1].kind = "attempt"
                 /\ cLog[1] = CCall("connect")
    /\ connPc = "sleep"
          => /\ CIsReconnecting(Len(cLog))
             /\ state = Reconnecting(cLog[Len(cLog)].ev.attempt)

\* C39 witness: a connect() call sleeps after its second reconnecting event.
C39_Witness ==
    /\ connPc = "sleep"
    /\ CReconnectsBefore(Len(cLog)) = 2
    /\ state = Reconnecting(2)

(***************************************************************************)
(* ConnectionManager::reconnect_delay                                      *)
(***************************************************************************)
MaxDelayArg == 8   \* attempt numbers 0..MaxDelayArg are all tried
MaxDelayCalls == 2 \* calls of reconnect_delay kept in dCalls

INITIAL_RECONNECT_DELAY_SECONDS == 1
MAX_RECONNECT_DELAY_SECONDS == 60

\* A u64 is kept as the set of the positions of its one-bits, 2^63 being
\* beyond the checker's integers.
U64Bits == 0..63
U64Max == U64Bits
\* The u64 of a number below 2^31
U64Of(n) == { b \in 0..30 : (n \div (2 ^ b)) % 2 = 1 }
\* a < b: at the highest bit where they differ, b has the one
U64Less(a, b) ==
    \E k \in U64Bits :
        /\ k \in b
        /\ k \notin a
        /\ \A j \in U64Bits : j > k => (j \in a <=> j \in b)

\* u32::saturating_sub(1)
SaturatingSub1(n) == IF n = 0 THEN 0 ELSE n - 1

\* u64::wrapping_shl: the shift amount taken modulo 64
checked_shl_Wrapping(v, rhs) == Some({ b \in U64Bits : b - (rhs % 64) \in v })

\* u64::checked_shl(rhs): None when rhs >= 64, else the bits moved up by rhs,
\* those moved beyond bit 63 lost
checked_shl(v, rhs) ==
    IF rhs >= 64 THEN None ELSE Some({ b \in U64Bits : b - rhs \in v })

\* Ord::clamp(lo, hi)
clamp(v, lo, hi) ==
    IF U64Less(v, lo) THEN lo ELSE IF U64Less(hi, v) THEN hi ELSE v

\* Duration::from_secs(seconds), read back as a number of seconds
SecondsOf(v) == CHOOSE n \in 0..MAX_RECONNECT_DELAY_SECONDS : U64Of(n) = v

reconnect_delay(attempt) ==
    LET shift == SaturatingSub1(attempt)
        shifted == checked_shl(U64Of(1), shift)
        seconds == clamp(IF IsSome(shifted) THEN Unwrap(shifted) ELSE U64Max,
                         U64Of(INITIAL_RECONNECT_DELAY_SECONDS),
                         U64Of(MAX_RECONNECT_DELAY_SECONDS))
    IN  SecondsOf(seconds)

\* The attempt numbers reconnect_delay is called with: the small ones, those
\* around the 64-bit shift limit, and the largest the checker's integers hold
DelayArgs == (0..MaxDelayArg) \cup {63, 64, 65, 66, 99, 2147483647}

DelayStep ==
    UNCHANGED <<presVars, mamVars, connVars, nameVars, busVars, collVars,
                msgVars>>

DelayInit == dCalls = <<>>

\* A call reconnect_delay(attempt); dCalls keeps the latest MaxDelayCalls
ReconnectDelayCall(attempt) ==
    /\ DelayStep
    /\ LET call == [attempt |-> attempt, delay |-> reconnect_delay(attempt)]
       IN  dCalls' = IF Len(dCalls) < MaxDelayCalls
                     THEN Append(dCalls, call)
                     ELSE Append(Tail(dCalls), call)

DelayNext == \E attempt \in DelayArgs : ReconnectDelayCall(attempt)

(***************************************************************************)
(* Claims about reconnect_delay (checked under SpecDelay)                  *)
(***************************************************************************)
\* 2^k, or 128 once 2^k >= 128: beyond the cap of 60 either way
Pow2Capped(k) == IF k >= 7 THEN 128 ELSE 2 ^ k

MinOf(a, b) == IF a <= b THEN a ELSE b
MaxOf(a, b) == IF a >= b THEN a ELSE b

\* C11: for every attempt n >= 1, reconnect_delay(n) = min(60, max(1, 2^(n-1)))
\* seconds, 1..7 giving 1, 2, 4, 8, 16, 32, 60, also where the shift passes
\* 64 bits; the delay never exceeds 60 and does not decrease as n grows.
C11_ReconnectDelay ==
    /\ \A i \in 1..Len(dCalls) :
          LET n == dCalls[i].attempt
          IN  /\ dCalls[i].delay <= 60
              /\ n >= 1 =>
                    dCalls[i].delay = MinOf(60, MaxOf(1, Pow2Capped(n - 1)))
              /\ n \in 1..7 =>
                    dCalls[i].delay = <<1, 2, 4, 8, 16, 32, 60>>[n]
    /\ \A i, j \in 1..Len(dCalls) :
          dCalls[i].attempt <= dCalls[j].attempt =>
              dCalls[i].delay <= dCalls[j].delay

\* C11 witness: reconnect_delay was called with 6 (below the cap) and with 66
\* (shift 65, beyond 64 bits).
C11_Witness ==
    /\ Len(dCalls) = 2
    /\ dCalls[1].attempt = 6
    /\ dCalls[1].delay = 32
    /\ dCalls[2].attempt = 66

(***************************************************************************)
(* Channel names and subscription patterns (crates/core/src/event.rs)      *)
(***************************************************************************)
MaxNameLen == 4   \* every string up to this length is tried as a name

\* A name is a sequence of characters.
LowerChars ==
    {"a", "b", "c", "d", "e", "f", "g", "h", "i", "j", "k", "l", "m",
     "n", "o", "p", "q", "r", "s", "t", "u", "v", "w", "x", "y", "z"}
DigitChars == {"0", "1", "2", "3", "4", "5", "6", "7", "8", "9"}

DomSystem == <<"s", "y", "s", "t", "e", "m">>
DomXmpp   == <<"x", "m", "p", "p">>
DomUi     == <<"u", "i">>
DomPlugin == <<"p", "l", "u", "g", "i", "n">>
Domains   == {DomSystem, DomXmpp, DomUi, DomPlugin}

\* Position of the first c in s, 0 when there is none
IndexOf(s, c) ==
    IF \E i \in 1..Len(s) : s[i] = c
    THEN CHOOSE i \in 1..Len(s) : s[i] = c /\ \A j \in 1..(i - 1) : s[j] # c
    ELSE 0

\* s.split('.').next(): the characters before the first dot
FirstSegment(s) ==
    IF IndexOf(s, ".") = 0 THEN s ELSE SubSeq(s, 1, IndexOf(s, ".") - 1)

\* s.contains(t) for a two-character t
Contains2(s, t) ==
    \E i \in 1..(Len(s) - 1) : s[i] = t[1] /\ s[i + 1] = t[2]

Ok(v)  == [ok |-> TRUE, value |-> v]
Err(e) == [ok |-> FALSE, error |-> e]

\* Channel::is_valid without the ".." test
is_valid_NoDoubleDot(name) ==
    /\ ~( name = <<>> \/ name[1] = "." \/ name[Len(name)] = "." )
    /\ ~\E i \in 1..Len(name) :
           name[i] \notin LowerChars \cup DigitChars \cup {"."}
    /\ FirstSegment(name) \in {DomSystem, DomXmpp, DomUi, DomPlugin}

\* Channel::is_valid
is_valid(name) ==
    IF \/ name = <<>>
       \/ name[1] = "."
       \/ name[Len(name)] = "."
       \/ Contains2(name, <<".", ".">>)
    THEN FALSE
    ELSE IF \E i \in 1..Len(name) :
               name[i] \notin LowerChars \cup DigitChars \cup {"."}
    THEN FALSE
    ELSE FirstSegment(name) \in {DomSystem, DomXmpp, DomUi, DomPlugin}

\* Channel::new
ChannelNew(name) ==
    IF is_valid(name) THEN Ok(name) ELSE Err("Internal")

\* Channel::domain and Channel::as_str of a constructed Channel
ChannelDomain(channel) == FirstSegment(channel)
ChannelAsStr(channel) == channel

\* has_glob_meta with the braces forgotten
has_glob_meta_NoBraces(segment) ==
    \E i \in 1..Len(segment) : segment[i] \in {"*", "?", "[", "]", "!"}

has_glob_meta(segment) ==
    \E i \in 1..Len(segment) :
        segment[i] \in {"*", "?", "[", "]", "{", "}", "!"}

\* Brace depth after each prefix of the pattern
RECURSIVE BraceDepth(_, _)
BraceDepth(pattern, n) ==
    IF n = 0 THEN 0
    ELSE BraceDepth(pattern, n - 1)
         + (IF pattern[n] = "{" THEN 1 ELSE IF pattern[n] = "}" THEN -1 ELSE 0)

\* Glob::new(pattern) succeeds: every "{" is closed and every "}" was opened
\* (the patterns of the model hold no "[", "]" or "\")
GlobCompiles(pattern) ==
    /\ \A n \in 0..Len(pattern) : BraceDepth(pattern, n) >= 0
    /\ BraceDepth(pattern, Len(pattern)) = 0

\* BroadcastEventBus::receivers_for_pattern: the domains whose buffers the
\* subscription gets a receiver of
receivers_for_pattern(pattern) ==
    LET first_segment == FirstSegment(pattern)
    IN  IF first_segment = <<>> THEN Err("InvalidPattern")
        ELSE IF has_glob_meta(first_segment)
        THEN Ok({DomSystem, DomXmpp, DomUi, DomPlugin})
        ELSE IF first_segment \in {DomSystem, DomXmpp, DomUi, DomPlugin}
        THEN Ok({first_segment})
        ELSE Err("InvalidPattern")

\* BroadcastEventBus::subscribe, as far as the pattern decides it
SubscribeAttach(pattern) ==
    IF ~GlobCompiles(pattern) THEN Err("InvalidPattern")
    ELSE receivers_for_pattern(pattern)

\* All strings of at most n characters of alphabet
StringsUpTo(alphabet, n) == UNION { [1..k -> alphabet] : k \in 0..n }

\* Names given to Channel::new: every short string over a few characters,
\* and longer samples of each domain and of each way to be rejected
ChannelNames ==
    StringsUpTo({"u", "i", ".", "0", "A"}, MaxNameLen)
    \cup { DomSystem \o <<".", "a">>, DomXmpp, DomPlugin \o <<".", "a", ".", "b">>,
           DomSystem \o <<".">>, DomXmpp \o <<".", ".", "a">>,
           DomUi \o <<".", "a", "_", "b">>, DomUi \o <<".", "a", "-", "b">>,
           DomUi \o <<".", "a", " ", "b">>, DomSystem \o <<"s">>,
           <<"s", "y", "s">>, DomPlugin \o <<"/", "a">>,
           <<"i", "n", "v", "a", "l", "i", "d", ".", "a">> }

\* Patterns given to subscribe
SubscribePatterns ==
    StringsUpTo({"u", "i", ".", "*", "?"}, MaxNameLen)
    \cup { DomSystem \o <<".", "*", "*">>, DomXmpp \o <<".", "*">>,
           DomPlugin \o <<".", "a">>, DomPlugin,
           <<"{">> \o DomSystem \o <<",">> \o DomUi \o <<"}", ".", "*", "*">>,
           <<"{">> \o DomUi \o <<".", "a">>, DomUi \o <<"}", ".", "a">>,
           DomUi \o <<".", "{", "a">>, DomUi \o <<".", "{", "a", ",", "b", "}">>,
           <<"!">> \o DomUi \o <<".", "a">>, DomUi \o <<"!", ".", "a">>,
           <<"f", "o", "o", ".", "a">>, DomSystem \o <<"s", ".", "a">> }

\* One call is followed from the initial state.
NameStep ==
    /\ nameCall = None
    /\ UNCHANGED <<presVars, mamVars, connVars, delayVars, busVars, collVars,
                   msgVars>>

NameInit == nameCall = None

\* A call Channel::new(name)
CallChannelNew(name) ==
    /\ NameStep
    /\ nameCall' = Some([op |-> "Channel::new", arg |-> name,
                         result |-> ChannelNew(name)])

\* A call subscribe(pattern), recording the buffers attached
CallSubscribe(pattern) ==
    /\ NameStep
    /\ nameCall' = Some([op |-> "subscribe", arg |-> pattern,
                         result |-> SubscribeAttach(pattern)])

NameNext ==
    \/ \E name \in ChannelNames : CallChannelNew(name)
    \/ \E pattern \in SubscribePatterns : CallSubscribe(pattern)

(***************************************************************************)
(* Claims about Channel::new and subscribe (checked under SpecNames)       *)
(***************************************************************************)
NameCalled(op) == IsSome(nameCall) /\ Unwrap(nameCall).op = op

GlobMetaChars == {"*", "?", "[", "]", "{", "}", "!"}

\* The first dot-segment of s holds no glob metacharacter
FirstSegmentLiteral(s) ==
    \A i \in 1..Len(s) :
        (\A j \in 1..i : s[j] # ".") => s[i] \notin GlobMetaChars

\* The first dot-segment of s is the domain d
StartsWithDomain(s, d) ==
    /\ Len(s) >= Len(d)
    /\ SubSeq(s, 1, Len(d)) = d
    /\ Len(s) > Len(d) => s[Len(d) + 1] = "."

\* C17 as claimed: a pattern whose first dot-segment holds no glob
\* metacharacter and is system, xmpp, ui or plugin is attached to that
\* domain's buffer only; every other pattern is attached to all four.
C17_AttachOneOrAllFour ==
    NameCalled("subscribe") =>
        LET p == Unwrap(nameCall).arg
            r == Unwrap(nameCall).result
        IN  IF FirstSegmentLiteral(p) /\ \E d \in Domains : StartsWithDomain(p, d)
            THEN \E d \in Domains : StartsWithDomain(p, d) /\ r = Ok({d})
            ELSE r = Ok(Domains)

\* C17 amended: a pattern the glob compiler accepts is attached to its
\* domain's buffer only when its first dot-segment holds no glob
\* metacharacter and names a domain, and to all four buffers when its first
\* dot-segment holds a glob metacharacter; any other pattern (first segment
\* empty, or literal and not a domain, or not a glob) is rejected with
\* InvalidPattern and nothing is attached.
C17_AttachByFirstSegment ==
    NameCalled("subscribe") =>
        LET p == Unwrap(nameCall).arg
            r == Unwrap(nameCall).result
        IN  IF ~GlobCompiles(p) THEN r = Err("InvalidPattern")
            ELSE IF FirstSegmentLiteral(p)
            THEN IF \E d \in Domains : StartsWithDomain(p, d)
                 THEN \E d \in Domains : StartsWithDomain(p, d) /\ r = Ok({d})
                 ELSE r = Err("InvalidPattern")
            ELSE r = Ok(Domains)

\* C17 witness: subscribe was called with "{system,ui}.**".
C17_Witness ==
    /\ NameCalled("subscribe")
    /\ Unwrap(nameCall).arg =
          <<"{">> \o DomSystem \o <<",">> \o DomUi \o <<"}", ".", "*", "*">>
    /\ Unwrap(nameCall).result.ok

\* C20: Channel::new(s) succeeds exactly when s is non-empty, neither starts
\* nor ends with a dot, holds no "..", only characters of a-z, 0-9 and ".",
\* and its first dot-segment is system, xmpp, ui or plugin; then domain() is
\* that first segment and as_str() is s.
C20_ChannelNewValidates ==
    NameCalled("Channel::new") =>
        LET s == Unwrap(nameCall).arg
            r == Unwrap(nameCall).result
            wellFormed ==
                /\ Len(s) > 0
                /\ s[1] # "."
                /\ s[Len(s)] # "."
                /\ \A i \in 1..(Len(s) - 1) : ~(s[i] = "." /\ s[i + 1] = ".")
                /\ \A i \in 1..Len(s) :
                      s[i] \in LowerChars \cup DigitChars \cup {"."}
                /\ \E d \in Domains : StartsWithDomain(s, d)
        IN  /\ r.ok <=> wellFormed
            /\ r.ok =>
                  /\ ChannelAsStr(r.value) = s
                  /\ StartsWithDomain(s, ChannelDomain(r.value))
                  /\ ChannelDomain(r.value) \in Domains

\* C20 witness: Channel::new accepted "plugin.a.b".
C20_Witness ==
    /\ NameCalled("Channel::new")
    /\ Unwrap(nameCall).arg = DomPlugin \o <<".", "a", ".", "b">>
    /\ Unwrap(nameCall).result.ok

(***************************************************************************)
(* BroadcastEventBus and EventSubscription (crates/core/src/event.rs)      *)
(***************************************************************************)
MaxCapacityArg == 2   \* BroadcastEventBus::new(0..MaxCapacityArg)
MaxPublish     == 3   \* publish() calls followed
MaxSubs        == 2   \* subscriptions created
MaxBusOps      == 6   \* subscribe, publish and recv steps followed in all

\* usize::next_power_of_two, for the capacities of the model
RECURSIVE NextPowerOfTwo(_)
NextPowerOfTwo(n) == IF n <= 1 THEN 1 ELSE 2 * NextPowerOfTwo((n + 1) \div 2)

\* broadcast::channel(capacity) holds the capacity rounded up to a power of
\* two; BroadcastEventBus::new asks for channel_capacity.max(1)
BufferCapacity(channel_capacity) ==
    NextPowerOfTwo(IF channel_capacity >= 1 THEN channel_capacity ELSE 1)

\* Channels events are published on
ChanUiA     == DomUi \o <<".", "a">>
ChanUiB     == DomUi \o <<".", "b">>
ChanXmppA   == DomXmpp \o <<".", "a">>
BusChannels == {ChanUiA, ChanUiB, ChanXmppA}

\* Patterns subscribed to: "ui.a", "*.a", "{ui,xmpp}.**"
PatUiA      == DomUi \o <<".", "a">>
PatAnyA     == <<"*", ".", "a">>
PatUiOrXmpp == <<"{">> \o DomUi \o <<",">> \o DomXmpp \o <<"}", ".", "*", "*">>
BusPatterns == {PatUiA, PatAnyA, PatUiOrXmpp}

\* The pieces of s between the separators sep
RECURSIVE SplitOn(_, _)
SplitOn(s, sep) ==
    IF IndexOf(s, sep) = 0 THEN <<s>>
    ELSE <<SubSeq(s, 1, IndexOf(s, sep) - 1)>>
         \o SplitOn(SubSeq(s, IndexOf(s, sep) + 1, Len(s)), sep)

\* The patterns a glob stands for, each {a,b,...} replaced by one of its
\* alternatives (alternatives are not nested in the model's patterns)
RECURSIVE ExpandAlternates(_)
ExpandAlternates(pattern) ==
    LET open == IndexOf(pattern, "{")
        close == IndexOf(pattern, "}")
        alternatives == SplitOn(SubSeq(pattern, open + 1, close - 1), ",")
    IN  IF open = 0 THEN {pattern}
        ELSE UNION { ExpandAlternates(SubSeq(pattern, 1, open - 1)
                                      \o alternatives[a]
                                      \o SubSeq(pattern, close + 1,
                                                Len(pattern))) :
                     a \in 1..Len(alternatives) }

\* A glob without alternatives against a text: "*" takes any characters, the
\* dot among them, "?" takes one character, others stand for themselves
RECURSIVE MatchTokens(_, _)
MatchTokens(pattern, text) ==
    IF pattern = <<>> THEN text = <<>>
    ELSE IF pattern[1] = "*"
    THEN \/ MatchTokens(Tail(pattern), text)
         \/ text # <<>> /\ MatchTokens(pattern, Tail(text))
    ELSE /\ text # <<>>
         /\ pattern[1] = "?" \/ pattern[1] = text[1]
         /\ MatchTokens(Tail(pattern), Tail(text))

\* GlobMatcher::is_match
GlobMatch(pattern, text) ==
    \E q \in ExpandAlternates(pattern) : MatchTokens(q, text)

\* recv() returning every event, the matcher never asked
Delivers_Any(pattern, event) == TRUE

\* recv(): self.matcher.is_match(event.channel.as_str())
Delivers(pattern, event) == GlobMatch(pattern, ChannelAsStr(event.channel))

\* sender_for_domain with the xmpp arm missing
sender_for_domain_NoXmpp(domain) ==
    IF domain \in {DomSystem, DomUi, DomPlugin} THEN Some(domain) ELSE None

\* BroadcastEventBus::sender_for_domain: the buffer of the domain, if any
sender_for_domain(domain) ==
    IF domain \in {DomSystem, DomXmpp, DomUi, DomPlugin}
    THEN Some(domain) ELSE None

\* A buffer storing the new event before the older ones
BufferPush_Front(buffer, event) == <<event>> \o buffer

\* broadcast::Sender::send with a receiver attached: the event is stored
\* after those sent before
BufferPush(buffer, event) == Append(buffer, event)

\* A lagging receiver moved past everything sent
RearmAt_Newest(buffer) == Len(buffer)

\* broadcast::Receiver::recv of a lagging receiver: the cursor moves to the
\* oldest event the buffer still retains
RearmAt(buffer) == Len(buffer) - busCap

\* The subscriptions attached to the buffer of domain
ReceiversOf(domain) ==
    { i \in 1..Len(busSubs) : domain \in DOMAIN busSubs[i].next }

\* Entries of a subscription's trace: what recv() returned (ok, lagged) and
\* what it dropped; a lagged entry notes the buffer that reported the lag and
\* how many events had been sent to it by then
TraceOk(event)   == [kind |-> "ok", event |-> event]
TraceDrop(event) == [kind |-> "drop", event |-> event]
TraceLag(count, dom, sent) ==
    [kind |-> "lagged", count |-> count, domain |-> dom, sent |-> sent]

\* Entries in the traces of the first n subscriptions
RECURSIVE TraceTotal(_)
TraceTotal(n) ==
    IF n = 0 THEN 0 ELSE Len(busSubs[n].trace) + TraceTotal(n - 1)

\* Subscriptions made, publish() calls and recv() steps so far
BusOps == Len(busSubs) + Len(busPub) + TraceTotal(Len(busSubs))

BusStep ==
    /\ BusOps < MaxBusOps
    /\ UNCHANGED <<presVars, mamVars, connVars, delayVars, nameVars, collVars,
                   msgVars>>

BusInit ==
    /\ busCap \in { BufferCapacity(c) : c \in 0..MaxCapacityArg }
    /\ busSent = [d \in Domains |-> <<>>]
    /\ busSubs = <<>>
    /\ busPub = <<>>

\* The bus no specification but SpecBus uses
BusQuiet == BusInit /\ busCap = BufferCapacity(MaxCapacityArg)

\* subscribe(pattern) returning a subscription: a new receiver of each
\* attached buffer, placed after everything sent so far (next is the
\* receiver's cursor, start notes where it began)
BusSubscribe(pattern) ==
    /\ BusStep
    /\ Len(busSubs) < MaxSubs
    /\ SubscribeAttach(pattern).ok
    /\ busSubs' = Append(busSubs,
          [pattern |-> pattern,
           next |-> [d \in SubscribeAttach(pattern).value |->
                        Len(busSent[d])],
           start |-> [d \in SubscribeAttach(pattern).value |->
                         Len(busSent[d])],
           polling |-> FALSE,
           trace |-> <<>>])
    /\ UNCHANGED <<busCap, busSent, busPub>>

\* publish(event) with event.channel = Channel::new(name)
BusPublish(name) ==
    /\ BusStep
    /\ Len(busPub) < MaxPublish
    /\ ChannelNew(name).ok
    /\ LET event == [id |-> Len(busPub) + 1,
                     channel |-> ChannelNew(name).value]
           sender == sender_for_domain(ChannelDomain(event.channel))
       IN  IF sender = None
           THEN /\ busPub' = Append(busPub,
                       [event |-> event, result |-> Err("InvalidChannel"),
                        receivers |-> 0])
                /\ UNCHANGED busSent
           ELSE /\ busPub' = Append(busPub,
                       [event |-> event, result |-> Ok("unit"),
                        receivers |->
                            Cardinality(ReceiversOf(Unwrap(sender)))])
                /\ busSent' =
                     IF ReceiversOf(Unwrap(sender)) = {}
                     THEN busSent
                     ELSE [busSent EXCEPT ![Unwrap(sender)] =
                              BufferPush(@, event)]
    /\ UNCHANGED <<busCap, busSubs>>

\* recv() with a select! whose losing branches had each taken their event
\* before being dropped
BusRecvPoll_SelectLoses(i, d) ==
    /\ BusStep
    /\ d \in DOMAIN busSubs[i].next
    /\ busSubs[i].next[d] < Len(busSent[d])
    /\ LET sub == busSubs[i]
       IN  IF sub.next[d] < Len(busSent[d]) - busCap
           THEN busSubs' = [busSubs EXCEPT
                    ![i].next[d] = RearmAt(busSent[d]),
                    ![i].polling = FALSE,
                    ![i].trace = Append(@,
                        TraceLag(RearmAt(busSent[d]) - sub.next[d], d,
                                 Len(busSent[d])))]
           ELSE LET event == busSent[d][sub.next[d] + 1]
                IN  IF Delivers(sub.pattern, event)
                    THEN busSubs' = [busSubs EXCEPT
                             ![i].next = [x \in DOMAIN sub.next |->
                                 IF sub.next[x] < Len(busSent[x])
                                 THEN sub.next[x] + 1 ELSE sub.next[x]],
                             ![i].polling = FALSE,
                             ![i].trace = Append(@, TraceOk(event))]
                    ELSE busSubs' = [busSubs EXCEPT
                             ![i].next[d] = @ + 1,
                             ![i].polling = TRUE,
                             ![i].trace = Append(@, TraceDrop(event))]
    /\ UNCHANGED <<busCap, busSent, busPub>>

\* One turn of the loop of recv() on subscription i, in the call in progress
\* or in a new call: the receiver of domain d is the select! branch that
\* completes.  A receiver that fell behind gives Lagged, which ends recv();
\* otherwise it gives its next event, which ends recv() if the matcher
\* accepts it and is dropped if not, recv() polling on (polling is set
\* while a call that dropped events has not returned).
BusRecvPoll(i, d) ==
    /\ BusStep
    /\ d \in DOMAIN busSubs[i].next
    /\ busSubs[i].next[d] < Len(busSent[d])
    /\ LET sub == busSubs[i]
       IN  IF sub.next[d] < Len(busSent[d]) - busCap
           THEN busSubs' = [busSubs EXCEPT
                    ![i].next[d] = RearmAt(busSent[d]),
                    ![i].polling = FALSE,
                    ![i].trace = Append(@,
                        TraceLag(RearmAt(busSent[d]) - sub.next[d], d,
                                 Len(busSent[d])))]
           ELSE LET event == busSent[d][sub.next[d] + 1]
                IN  IF Delivers(sub.pattern, event)
                    THEN busSubs' = [busSubs EXCEPT
                             ![i].next[d] = @ + 1,
                             ![i].polling = FALSE,
                             ![i].trace = Append(@, TraceOk(event))]
                    ELSE busSubs' = [busSubs EXCEPT
                             ![i].next[d] = @ + 1,
                             ![i].polling = TRUE,
                             ![i].trace = Append(@, TraceDrop(event))]
    /\ UNCHANGED <<busCap, busSent, busPub>>

BusNext ==
    \/ \E pattern \in BusPatterns : BusSubscribe(pattern)
    \/ \E name \in BusChannels : BusPublish(name)
    \/ \E i \in 1..Len(busSubs) : \E d \in Domains : BusRecvPoll(i, d)

(***************************************************************************)
(* Claims about the event bus (checked under SpecBus)                      *)
(***************************************************************************)
\* The buffer a trace entry came from
TraceDomain(e) ==
    IF e.kind = "lagged" THEN e.domain ELSE ChannelDomain(e.event.channel)

\* Where the buffer of domain d holds event
PosOf(d, event) ==
    CHOOSE p \in 1..Len(busSent[d]) : busSent[d][p].id = event.id

\* Events are numbered by their publish() call, so a smaller id was
\* published earlier.
\* C15: a subscriber that received two events of the same domain received
\* them in the order they were published, whatever the interleaving and
\* also when it is attached to all four buffers.
C15_SameDomainOrder ==
    \A i \in 1..Len(busSubs) :
        \A k, l \in 1..Len(busSubs[i].trace) :
            LET a == busSubs[i].trace[k]
                b == busSubs[i].trace[l]
            IN  ( /\ k < l
                  /\ a.kind = "ok"
                  /\ b.kind = "ok"
                  /\ TraceDomain(a) = TraceDomain(b) )
                => a.event.id < b.event.id

\* C15 witness: a subscription attached to all four buffers received two ui
\* events on different channels, an xmpp event having been published
\* between them.
C15_Witness ==
    \E i \in 1..Len(busSubs) :
        /\ DOMAIN busSubs[i].next = Domains
        /\ \E k, l \in 1..Len(busSubs[i].trace) :
              LET a == busSubs[i].trace[k]
                  b == busSubs[i].trace[l]
              IN  /\ k < l
                  /\ a.kind = "ok" /\ b.kind = "ok"
                  /\ TraceDomain(a) = DomUi
                  /\ TraceDomain(b) = DomUi
                  /\ a.event.channel # b.event.channel
                  /\ \E n \in (a.event.id + 1)..(b.event.id - 1) :
                        ChannelDomain(busPub[n].event.channel) = DomXmpp

\* The channels of the model each pattern asks for
AskedChannels(pattern) ==
    IF pattern = PatUiA THEN {ChanUiA}
    ELSE IF pattern = PatAnyA THEN {ChanUiA, ChanXmppA}
    ELSE {ChanUiA, ChanUiB, ChanXmppA}

\* C16: every event recv() returns is on a channel the subscription's
\* pattern matches; an event that does not match is taken from the buffer
\* and dropped, recv() going on polling, the other subscriptions and the
\* buffers left as they were.
C16_RecvFiltersByPattern ==
    [][ \A i \in 1..Len(busSubs) :
          busSubs'[i].trace # busSubs[i].trace =>
             LET e == busSubs'[i].trace[Len(busSubs'[i].trace)]
                 asked == AskedChannels(busSubs[i].pattern)
             IN  /\ e.kind = "ok" =>
                       /\ e.event.channel \in asked
                       /\ ~busSubs'[i].polling
                 /\ e.kind = "drop" =>
                       /\ e.event.channel \notin asked
                       /\ busSubs'[i].polling
                       /\ busSubs'[i].next[TraceDomain(e)] =
                             busSubs[i].next[TraceDomain(e)] + 1
                       /\ busSent' = busSent
                       /\ \A j \in 1..Len(busSubs) :
                             j # i => busSubs'[j] = busSubs[j]
      ]_vars

\* C16 witness: a subscription whose recv() is still polling dropped an
\* event, and that event was returned to another subscription.
C16_Witness ==
    \E i, j \in 1..Len(busSubs) :
        /\ i # j
        /\ busSubs[i].polling
        /\ \E k \in 1..Len(busSubs[i].trace) :
              /\ busSubs[i].trace[k].kind = "drop"
              /\ \E n \in 1..Len(busSubs[j].trace) :
                    busSubs[j].trace[n] =
                        TraceOk(busSubs[i].trace[k].event)

\* Cursor of subscription i on the buffer of d after its first k trace
\* entries
RECURSIVE CursorAfter(_, _, _)
CursorAfter(i, d, k) ==
    IF k = 0 THEN busSubs[i].start[d]
    ELSE LET e == busSubs[i].trace[k]
         IN  IF TraceDomain(e) # d THEN CursorAfter(i, d, k - 1)
             ELSE IF e.kind = "lagged" THEN e.sent - busCap
             ELSE PosOf(d, e.event)

\* Lagged(n) is reported to a subscriber more than the capacity behind, n
\* being the events it skipped
LagCounted(i, k) ==
    LET e == busSubs[i].trace[k]
        before == CursorAfter(i, e.domain, k - 1)
    IN  /\ e.sent - before > busCap
        /\ e.count = e.sent - busCap - before

C19_PublishNeverFails ==
    \A n \in 1..Len(busPub) :
        /\ busPub[n].result.ok
        /\ busPub[n].receivers = 0 =>
              \A i \in 1..Len(busSubs) :
                  \A k \in 1..Len(busSubs[i].trace) :
                      busSubs[i].trace[k].kind = "lagged"
                      \/ busSubs[i].trace[k].event.id # busPub[n].event.id

\* C19 witness: an xmpp event was published with no subscription attached to
\* the xmpp buffer, and a subscription created later, attached to it, has
\* received a later xmpp event.
C19_Witness ==
    \E n \in 1..Len(busPub) :
        /\ busPub[n].receivers = 0
        /\ ChannelDomain(busPub[n].event.channel) = DomXmpp
        /\ \E i \in 1..Len(busSubs) :
              \E k \in 1..Len(busSubs[i].trace) :
                  /\ busSubs[i].trace[k].kind = "ok"
                  /\ TraceDomain(busSubs[i].trace[k]) = DomXmpp
                  /\ busSubs[i].trace[k].event.id > n

\* The subscription has not had a Lagged so far
NeverLagged(i) ==
    \A k \in 1..Len(busSubs[i].trace) : busSubs[i].trace[k].kind # "lagged"

\* How often recv() on subscription i has returned event
TimesReturned(i, event) ==
    Cardinality({ k \in 1..Len(busSubs[i].trace) :
                    busSubs[i].trace[k] = TraceOk(event) })

\* C37: for a subscription that has not lagged, the events its receivers
\* have passed are, on each attached buffer, the events published since
\* subscribe() returned, in order and without a gap; each of them on a
\* channel the pattern asks for has been returned by recv() exactly once,
\* the others never, and recv() has returned nothing else.  An event its
\* receiver has not passed yet stays in the buffer for a later recv().
C37_ExactlyOnce ==
    \A i \in 1..Len(busSubs) :
        NeverLagged(i)
            => /\ \A d \in DOMAIN busSubs[i].next :
                    /\ busSubs[i].start[d] <= busSubs[i].next[d]
                    /\ busSubs[i].next[d] <= Len(busSent[d])
                    /\ \A p \in 1..Len(busSent[d]) :
                          TimesReturned(i, busSent[d][p]) =
                              IF /\ busSubs[i].start[d] < p
                                 /\ p <= busSubs[i].next[d]
                                 /\ busSent[d][p].channel
                                        \in AskedChannels(busSubs[i].pattern)
                              THEN 1 ELSE 0
               /\ \A k \in 1..Len(busSubs[i].trace) :
                    busSubs[i].trace[k].kind = "ok"
                        => LET e == busSubs[i].trace[k].event
                               d == ChannelDomain(e.channel)
                           IN /\ d \in DOMAIN busSubs[i].next
                              /\ \E p \in 1..Len(busSent[d]) :
                                    busSent[d][p] = e

\* C37 witness: a subscription attached to all four buffers that has not
\* lagged was handed a ui event while an xmpp event published earlier was
\* ready on another buffer, and a later recv() returned the xmpp event.
C37_Witness ==
    \E i \in 1..Len(busSubs) :
        /\ DOMAIN busSubs[i].next = Domains
        /\ NeverLagged(i)
        /\ \E k, l \in 1..Len(busSubs[i].trace) :
              LET a == busSubs[i].trace[k]
                  b == busSubs[i].trace[l]
              IN  /\ k < l
                  /\ a.kind = "ok" /\ b.kind = "ok"
                  /\ TraceDomain(a) = DomUi
                  /\ TraceDomain(b) = DomXmpp
                  /\ b.event.id < a.event.id

(***************************************************************************)
(* MamManager::collect_query_results run by two callers at once            *)
(* (checked under SpecCollect)                                             *)
(***************************************************************************)
MaxCollResponses == 3

\* The callers of sync_since / fetch_history on one shared MamManager
CollectorIds == {1, 2}

\* query_id = Uuid::new_v4(): each call has its own
QueryIdOf(c) == IF c = 1 THEN "q1" ELSE "q2"

\* MamResultReceived { query_id, messages, .. }
MamResultOf(query_id, msgs) ==
    [chan |-> "xmpp.mam.result.received", query_id |-> query_id,
     messages |-> msgs]

CollResponses ==
    { MamResultOf("q1", <<ChatMessage("m1", JidB, "x", 1)>>),
      MamResultOf("q2", <<ChatMessage("m2", JidB, "y", 2)>>),
      MamFinReceived(TRUE, Some("m2")),
      MamFinReceived(FALSE, None) }

CSubscribed(c) == [kind |-> "subscribe", caller |-> c]
CXmpp(r)       == [kind |-> "xmpp", ev |-> r]

CollPublished ==
    Cardinality({ k \in 1..Len(collLog) : collLog[k].kind = "xmpp" })

CollStep ==
    UNCHANGED <<presVars, mamVars, connVars, delayVars, nameVars, busVars,
                msgVars>>

CollInit ==
    /\ collectors = [c \in CollectorIds |->
                        [pc |-> "idle", inbox |-> <<>>, messages |-> <<>>,
                         last_id |-> None, result |-> None]]
    /\ collLog = <<>>

\* collect_query_results(query_id): subscribe("xmpp.mam.**"), empty page
CollectSubscribe(c) ==
    /\ CollStep
    /\ collectors[c].pc = "idle"
    /\ collectors' = [collectors EXCEPT ![c].pc = "collect"]
    /\ collLog' = Append(collLog, CSubscribed(c))

\* The server side publishes r on xmpp.mam.*: every live subscription
\* gets a copy
CollectPublish(r) ==
    /\ CollStep
    /\ CollPublished < MaxCollResponses
    /\ collectors' = [c \in CollectorIds |->
                         IF collectors[c].pc = "collect"
                         THEN [collectors[c] EXCEPT !.inbox = Append(@, r)]
                         ELSE collectors[c]]
    /\ collLog' = Append(collLog, CXmpp(r))

\* recv() yields a MamResultReceived, but only the results of the call's own
\* query are appended
CollectResult_OwnQuery(c) ==
    /\ CollStep
    /\ collectors[c].pc = "collect"
    /\ collectors[c].inbox # <<>>
    /\ LET ev == Head(collectors[c].inbox) IN
        /\ ev.chan = "xmpp.mam.result.received"
        /\ collectors' = [collectors EXCEPT
              ![c].inbox = Tail(@),
              ![c].messages = IF ev.query_id = QueryIdOf(c)
                              THEN @ \o ev.messages ELSE @,
              ![c].last_id = IF ev.query_id = QueryIdOf(c)
                             THEN LastIdOf(ev.messages, @) ELSE @]
    /\ UNCHANGED collLog

\* recv() yields a MamResultReceived: its messages are appended (the
\* parameter _query_id is not looked at)
CollectResult(c) ==
    /\ CollStep
    /\ collectors[c].pc = "collect"
    /\ collectors[c].inbox # <<>>
    /\ LET ev == Head(collectors[c].inbox) IN
        /\ ev.chan = "xmpp.mam.result.received"
        /\ collectors' = [collectors EXCEPT
              ![c].inbox = Tail(@),
              ![c].messages = @ \o ev.messages,
              ![c].last_id = LastIdOf(ev.messages, @)]
    /\ UNCHANGED collLog

\* recv() yields a MamFinReceived: the call returns its page and drops the
\* subscription
CollectFin(c) ==
    /\ CollStep
    /\ collectors[c].pc = "collect"
    /\ collectors[c].inbox # <<>>
    /\ LET ev == Head(collectors[c].inbox) IN
        /\ ev.chan = "xmpp.mam.fin.received"
        /\ collectors' = [collectors EXCEPT
              ![c].pc = "done",
              ![c].inbox = <<>>,
              ![c].result = Some(
                  [kind |-> "ok", messages |-> collectors[c].messages,
                   complete |-> ev.complete,
                   last_id |-> IF IsSome(ev.last_id) THEN ev.last_id
                               ELSE collectors[c].last_id])]
    /\ UNCHANGED collLog

\* No event within 30 s: the call fails with Timeout(30)
CollectTimeout(c) ==
    /\ CollStep
    /\ collectors[c].pc = "collect"
    /\ collectors[c].inbox = <<>>
    /\ collectors' = [collectors EXCEPT
          ![c].pc = "done",
          ![c].result = Some([kind |-> "timeout"])]
    /\ UNCHANGED collLog

CollNext ==
    \/ \E c \in CollectorIds : CollectSubscribe(c)
    \/ \E r \in CollResponses : CollectPublish(r)
    \/ \E c \in CollectorIds : CollectResult(c)
    \/ \E c \in CollectorIds : CollectFin(c)
    \/ \E c \in CollectorIds : CollectTimeout(c)

(***************************************************************************)
(* Claims about concurrent collectors (checked under SpecCollect)          *)
(***************************************************************************)
\* Where caller c subscribed
CSubscribedAt(c) ==
    CHOOSE k \in 1..Len(collLog) : collLog[k] = CSubscribed(c)

\* The responses published from position k of the log on, in order
RECURSIVE CPublishedFrom(_)
CPublishedFrom(k) ==
    IF k > Len(collLog) THEN <<>>
    ELSE IF collLog[k].kind = "xmpp"
         THEN <<collLog[k].ev>> \o CPublishedFrom(k + 1)
         ELSE CPublishedFrom(k + 1)

CIsFin(ev) == ev.chan = "xmpp.mam.fin.received"

\* The messages of the results of evs that come before its first fin,
\* whatever their query_id
RECURSIVE CPageOf(_)
CPageOf(evs) ==
    IF evs = <<>> \/ CIsFin(Head(evs)) THEN <<>>
    ELSE Head(evs).messages \o CPageOf(Tail(evs))

\* The fins of evs
CFinsOf(evs) == SelectSeq(evs, CIsFin)

\* C35: the collector does not look at query_id.  A call that returned a
\* page returned the messages of every result published between its
\* subscription and the first fin published after it, whichever query the
\* result or the fin answers; a call still collecting has taken or still
\* holds every such result.  So with two collectors subscribed, each
\* result and each fin reaches both, and the fin of one call ends the page
\* of the other.
C35_CollectorIgnoresQueryId ==
    \A c \in CollectorIds :
        collectors[c].pc # "idle"
            => LET seen == CPublishedFrom(CSubscribedAt(c)) IN
               /\ collectors[c].pc = "collect"
                    => collectors[c].messages \o CPageOf(collectors[c].inbox)
                           = CPageOf(seen)
               /\ (/\ collectors[c].pc = "done"
                   /\ Unwrap(collectors[c].result).kind = "ok")
                    => /\ Unwrap(collectors[c].result).messages = CPageOf(seen)
                       /\ CFinsOf(seen) # <<>>
                       /\ Unwrap(collectors[c].result).complete
                              = Head(CFinsOf(seen)).complete

\* C35 witness: both calls returned a page although one fin was published,
\* and each page holds the message of the result of the other call's query.
C35_Witness ==
    /\ \A c \in CollectorIds :
          /\ collectors[c].pc = "done"
          /\ Unwrap(collectors[c].result).kind = "ok"
          /\ \E k \in 1..Len(collLog) :
                /\ collLog[k].kind = "xmpp"
                /\ ~CIsFin(collLog[k].ev)
                /\ collLog[k].ev.query_id # QueryIdOf(c)
                /\ \E n \in 1..Len(Unwrap(collectors[c].result).messages) :
                      Unwrap(collectors[c].result).messages[n]
                          = collLog[k].ev.messages[1]
    /\ Len(CFinsOf(CPublishedFrom(1))) = 1

(***************************************************************************)
(* MessageManager (crate waddle_messaging): send_message, the offline      *)
(* queue and its reconciliation, as section 4.6 of the specification       *)
(* describes them and the integration tests exercise them                  *)
(* (checked under SpecMsg)                                                 *)
(***************************************************************************)
MaxQueued == 2     \* rows of offline_queue in a run
MaxMsgOps == 5     \* operations on the MessageManager in a run

\* The account's own jid, the author of everything send_message builds
OwnJid == JidA

\* Client-generated message ids, in the order they are allocated
LocalIds == <<"s1", "s2", "s3", "s4">>

\* ChatMessage { id, from, to, body, timestamp, .. } of a 1:1 chat
DirectMessage(id, from, to, body) ==
    [id |-> id, from |-> from, to |-> to, body |-> body, timestamp |-> 0]

MessageSendRequested(id, to, body) ==
    [chan |-> "ui.message.send", id |-> id, to |-> to, body |-> body]
RosterAddRequested(jid) == [chan |-> "ui.roster.add", jid |-> jid]
ComingOnline == [chan |-> "system.coming.online"]
GoingOffline == [chan |-> "system.going.offline"]

\* A row of offline_queue; payload is the stored request event
QueueRow(id, stanza_type, payload, status) ==
    [id |-> id, stanza_type |-> stanza_type, payload |-> payload,
     status |-> status]

\* An operation on the MessageManager with the events it published
QOp(op, arg, pub) == [op |-> op, arg |-> arg, pub |-> pub]

MsgStep ==
    /\ Len(qLog) < MaxMsgOps
    /\ UNCHANGED <<presVars, mamPc, mamCall, sync_state, collector, mLog,
                   connVars, delayVars, nameVars, busVars, collVars>>

MsgInit ==
    /\ online = FALSE
    /\ offline_queue = <<>>
    /\ qLog = <<>>

\* send_message(to, body)
send_message(to, body) ==
    /\ MsgStep
    /\ Len(offline_queue) < MaxQueued
    /\ LET id  == LocalIds[Len(offline_queue) + 1]
           req == MessageSendRequested(id, to, body)
       IN /\ messages' = persist_message(messages,
                                          DirectMessage(id, OwnJid, to, body))
          /\ offline_queue' = Append(offline_queue,
                 QueueRow(Len(offline_queue) + 1, "message", req,
                          IF online THEN "sent" ELSE "pending"))
          /\ qLog' = Append(qLog, QOp("send_message", req,
                                      IF online THEN <<req>> ELSE <<>>))
    /\ UNCHANGED online

\* ui.roster.add seen while offline: enqueued with stanza_type iq
HandleRosterAdd(jid) ==
    /\ MsgStep
    /\ Len(offline_queue) < MaxQueued
    /\ offline_queue' =
          IF online THEN offline_queue
          ELSE Append(offline_queue,
                      QueueRow(Len(offline_queue) + 1, "iq",
                               RosterAddRequested(jid), "pending"))
    /\ qLog' = Append(qLog, QOp("RosterAddRequested", jid, <<>>))
    /\ UNCHANGED <<online, messages>>

\* The rows the drain emits, newest first
PendingRows_NewestFirst(queue) ==
    LET p == SelectSeq(queue, LAMBDA row : row.status = "pending")
    IN  [i \in 1..Len(p) |-> p[Len(p) + 1 - i]]

\* The rows the drain emits: the pending ones, in ascending id order
PendingRows(queue) ==
    SelectSeq(queue, LAMBDA row : row.status = "pending")

\* The status the drain leaves a row in
DrainedStatus(row) ==
    IF row.status # "pending" THEN row.status
    ELSE IF row.stanza_type = "message" THEN "sent" ELSE "confirmed"

\* On ConnectionEstablished: online, drain the queue, system.coming.online
MsgConnectionEstablished ==
    /\ MsgStep
    /\ online' = TRUE
    /\ offline_queue' = [i \in 1..Len(offline_queue) |->
          [offline_queue[i] EXCEPT !.status = DrainedStatus(offline_queue[i])]]
    /\ qLog' = Append(qLog, QOp("ConnectionEstablished", OwnJid,
          [i \in 1..Len(PendingRows(offline_queue)) |->
              PendingRows(offline_queue)[i].payload] \o <<ComingOnline>>))
    /\ UNCHANGED messages

\* On ConnectionLost: offline, system.going.offline, queue untouched
MsgConnectionLost ==
    /\ MsgStep
    /\ online' = FALSE
    /\ qLog' = Append(qLog, QOp("ConnectionLost", OwnJid, <<GoingOffline>>))
    /\ UNCHANGED <<offline_queue, messages>>

\* The row is the queued send of the message with this id
RowHasId(row, id) == row.stanza_type = "message" /\ row.payload.id = id

\* The echo confirms the row
EchoedStatus_Confirms(row, m) ==
    IF RowHasId(row, m.id) THEN "confirmed" ELSE row.status

\* xmpp.message.sent: sent if still pending, else kept
EchoedStatus(row, m) ==
    IF RowHasId(row, m.id) /\ row.status = "pending"
    THEN "sent" ELSE row.status

\* xmpp.message.delivered: the row with that id is confirmed
ReceiptStatus(row, id) ==
    IF RowHasId(row, id) THEN "confirmed" ELSE row.status

\* The archive holds the message of the row: same id, or the same
\* recipient and body under the archive's own id
ArchivedAs(row, m) ==
    /\ row.stanza_type = "message"
    /\ m.from = OwnJid
    /\ \/ m.id = row.payload.id
       \/ m.to = row.payload.to /\ m.body = row.payload.body

\* xmpp.mam.result.received: a sent or pending row whose message is among
\* msgs is confirmed
ArchiveStatus(row, msgs) ==
    IF /\ row.status \in {"sent", "pending"}
       /\ \E n \in 1..Len(msgs) : ArchivedAs(row, msgs[n])
    THEN "confirmed" ELSE row.status

\* On xmpp.message.sent {message}
HandleMessageSent(m) ==
    /\ MsgStep
    /\ offline_queue' = [i \in 1..Len(offline_queue) |->
          [offline_queue[i] EXCEPT !.status = EchoedStatus(offline_queue[i], m)]]
    /\ messages' = persist_message(messages, m)
    /\ qLog' = Append(qLog, QOp("MessageSent", m, <<>>))
    /\ UNCHANGED online

\* On xmpp.message.delivered {id, to}
HandleMessageDelivered(id) ==
    /\ MsgStep
    /\ offline_queue' = [i \in 1..Len(offline_queue) |->
          [offline_queue[i] EXCEPT
              !.status = ReceiptStatus(offline_queue[i], id)]]
    /\ qLog' = Append(qLog, QOp("MessageDelivered", id, <<>>))
    /\ UNCHANGED <<online, messages>>

\* On xmpp.mam.result.received {messages}
HandleMamResult(msgs) ==
    /\ MsgStep
    /\ offline_queue' = [i \in 1..Len(offline_queue) |->
          [offline_queue[i] EXCEPT
              !.status = ArchiveStatus(offline_queue[i], msgs)]]
    /\ qLog' = Append(qLog, QOp("MamResultReceived", msgs, <<>>))
    /\ UNCHANGED <<online, messages>>

MsgBodies == {"first", "second"}

\* The messages of the queued sends, as the server echoes them
QueuedMessages ==
    { DirectMessage(offline_queue[i].payload.id, OwnJid,
                    offline_queue[i].payload.to, offline_queue[i].payload.body) :
        i \in { j \in 1..Len(offline_queue) :
                  offline_queue[j].stanza_type = "message" } }

\* What the archive returns: a queued message under its own id, or a
\* message under an id of the archive
ArchivedMessages ==
    QueuedMessages \cup
    { DirectMessage("archive-id-99", OwnJid, JidB, "second"),
      DirectMessage("archive-id-98", JidB, OwnJid, "second") }

MsgNext ==
    \/ \E body \in MsgBodies : send_message(JidB, body)
    \/ HandleRosterAdd(JidB)
    \/ MsgConnectionEstablished
    \/ MsgConnectionLost
    \/ \E m \in QueuedMessages : HandleMessageSent(m)
    \/ \E m \in QueuedMessages : HandleMessageDelivered(m.id)
    \/ \E m \in ArchivedMessages : HandleMamResult(<<m>>)

(***************************************************************************)
(* Claims about the MessageManager (checked under SpecMsg)                 *)
(***************************************************************************)
\* The step is the operation op
QHandles(op) ==
    /\ Len(qLog') = Len(qLog) + 1
    /\ qLog'[Len(qLog')].op = op

\* The queued sends that are pending
QPendingSends ==
    { i \in 1..Len(offline_queue) :
        /\ offline_queue[i].stanza_type = "message"
        /\ offline_queue[i].status = "pending" }

QSendsOf(pub) == SelectSeq(pub, LAMBDA e : e.chan = "ui.message.send")

\* C33: handling ConnectionEstablished publishes one ui.message.send per
\* pending send of the queue, in ascending queue id order, and moves each of
\* these rows from pending to sent; a row that was not pending keeps its
\* status and is not emitted again.
C33_DrainIsFifo ==
    [][QHandles("ConnectionEstablished")
        => LET sends == QSendsOf(qLog'[Len(qLog')].pub) IN
           /\ Len(sends) = Cardinality(QPendingSends)
           /\ \A i \in QPendingSends :
                 /\ sends[Cardinality({ j \in QPendingSends : j <= i })]
                        = offline_queue[i].payload
                 /\ offline_queue'[i].status = "sent"
           /\ Len(offline_queue') = Len(offline_queue)
           /\ \A i \in 1..Len(offline_queue) :
                 offline_queue[i].status # "pending"
                     => offline_queue'[i] = offline_queue[i]]_vars

\* C33 witness: two sends made while offline were drained, the first one
\* first, and both rows are sent.
C33_Witness ==
    /\ qLog # <<>>
    /\ qLog[Len(qLog)].op = "ConnectionEstablished"
    /\ Len(QSendsOf(qLog[Len(qLog)].pub)) = 2
    /\ QSendsOf(qLog[Len(qLog)].pub)[1].id = LocalIds[1]
    /\ QSendsOf(qLog[Len(qLog)].pub)[2].id = LocalIds[2]
    /\ \A i \in 1..Len(offline_queue) : offline_queue[i].status = "sent"

\* The step handles the echo of the send of row i
QEchoFor(i) ==
    /\ QHandles("MessageSent")
    /\ RowHasId(offline_queue[i], qLog'[Len(qLog')].arg.id)

\* The step handles the delivery receipt of the send of row i
QReceiptFor(i) ==
    /\ QHandles("MessageDelivered")
    /\ RowHasId(offline_queue[i], qLog'[Len(qLog')].arg)

\* The step handles an archive result that contains the message of row i
QArchiveFor(i) ==
    /\ QHandles("MamResultReceived")
    /\ \E n \in 1..Len(qLog'[Len(qLog')].arg) :
          ArchivedAs(offline_queue[i], qLog'[Len(qLog')].arg[n])

\* C34 as stated: each of the echo, the receipt and the archive result
\* upgrades a sent row to confirmed.
C34_AnyEventConfirms ==
    [][\A i \in 1..Len(offline_queue) :
          (/\ offline_queue[i].status = "sent"
           /\ QEchoFor(i) \/ QReceiptFor(i) \/ QArchiveFor(i))
              => offline_queue'[i].status = "confirmed"]_vars

\* Where the send of row i is in the log
QEnqueuedAt(i) ==
    CHOOSE k \in 1..Len(qLog) :
        /\ qLog[k].op = "send_message"
        /\ qLog[k].arg = offline_queue[i].payload

\* The operations on row i since it was enqueued, as a set
QSince(i) == QEnqueuedAt(i)..Len(qLog)

QEmitted(i) ==
    \E k \in QSince(i) : \E n \in 1..Len(qLog[k].pub) :
        qLog[k].pub[n] = offline_queue[i].payload

QEchoed(i) ==
    \E k \in QSince(i) :
        /\ qLog[k].op = "MessageSent"
        /\ RowHasId(offline_queue[i], qLog[k].arg.id)

QReceipted(i) ==
    \E k \in QSince(i) :
        /\ qLog[k].op = "MessageDelivered"
        /\ RowHasId(offline_queue[i], qLog[k].arg)

QArchived(i) ==
    \E k \in QSince(i) :
        /\ qLog[k].op = "MamResultReceived"
        /\ \E n \in 1..Len(qLog[k].arg) :
              ArchivedAs(offline_queue[i], qLog[k].arg[n])

\* C34, amended: the receipt and the archive result each upgrade a sent row
\* to confirmed, while the echo leaves a sent row sent (it moves a pending
\* row to sent).  The status of a queued send depends only on which of the
\* events have been handled since it was enqueued, not on their order:
\* confirmed if a receipt or an archive result was among them, else sent if
\* it was emitted or echoed, else pending.  A confirmed row stays confirmed.
C34_ReceiptOrArchiveConfirms ==
    /\ [](\A i \in 1..Len(offline_queue) :
            offline_queue[i].stanza_type = "message"
                => offline_queue[i].status =
                       IF QReceipted(i) \/ QArchived(i) THEN "confirmed"
                       ELSE IF QEmitted(i) \/ QEchoed(i) THEN "sent"
                       ELSE "pending")
    /\ [][\A i \in 1..Len(offline_queue) :
            /\ (offline_queue[i].status = "sent"
                    /\ (QReceiptFor(i) \/ QArchiveFor(i)))
                  => offline_queue'[i].status = "confirmed"
            /\ (offline_queue[i].status = "sent" /\ QEchoFor(i))
                  => offline_queue'[i].status = "sent"
            /\ offline_queue[i].status = "confirmed"
                  => offline_queue'[i].status = "confirmed"]_vars

\* C34 witness: a drained send was echoed and stayed sent, and the archive
\* result that came next confirmed it under the archive's own id; no
\* receipt was handled.
C34_Witness ==
    \E i \in 1..Len(offline_queue) :
        /\ offline_queue[i].stanza_type = "message"
        /\ offline_queue[i].status = "confirmed"
        /\ ~QReceipted(i)
        /\ \E k, l \in QSince(i) :
              /\ k < l /\ l = Len(qLog)
              /\ qLog[k].op = "MessageSent"
              /\ RowHasId(offline_queue[i], qLog[k].arg.id)
              /\ \E e \in 1..(k - 1) : \E n \in 1..Len(qLog[e].pub) :
                    qLog[e].pub[n] = offline_queue[i].payload
              /\ qLog[l].op = "MamResultReceived"
              /\ qLog[l].arg[1].id = "archive-id-99"

\* Each specification starts the other managers in their constructed state.
MamQuiet  == MamInit /\ sync_state = EmptyMap
ConnQuiet == ConnInit /\ max_reconnect_attempts = 0

OthersQuiet == DelayInit /\ NameInit /\ BusQuiet /\ CollInit /\ MsgInit

InitPresence == PresenceInit /\ MamQuiet /\ ConnQuiet /\ OthersQuiet
InitMam      == PresenceInit /\ MamInit /\ ConnQuiet /\ OthersQuiet
InitConn     == PresenceInit /\ MamQuiet /\ ConnInit /\ OthersQuiet
InitDelay    == PresenceInit /\ MamQuiet /\ ConnQuiet /\ OthersQuiet
InitNames    == PresenceInit /\ MamQuiet /\ ConnQuiet /\ OthersQuiet
InitBus      ==
    /\ PresenceInit /\ MamQuiet /\ ConnQuiet
    /\ DelayInit /\ NameInit /\ BusInit /\ CollInit /\ MsgInit
InitCollect  ==
    /\ PresenceInit /\ MamQuiet /\ ConnQuiet
    /\ DelayInit /\ NameInit /\ BusQuiet /\ CollInit /\ MsgInit
InitMsg      == PresenceInit /\ MamQuiet /\ ConnQuiet /\ OthersQuiet

SpecMsg == InitMsg /\ [][MsgNext]_vars

SpecCollect == InitCollect /\ [][CollNext]_vars

SpecBus == InitBus /\ [][BusNext]_vars

SpecNames == InitNames /\ [][NameNext]_vars

SpecDelay == InitDelay /\ [][DelayNext]_vars

SpecConn == InitConn /\ [][ConnNext]_vars

SpecMam == InitMam /\ [][MamNext]_vars

SpecPresence ==
    InitPresence /\ [][PresenceNext]_vars

====
